---- MODULE Spec2Model ----
(***************************************************************************)
(* Model of the GREEKERS options dashboard: the Dashboard component's      *)
(* state and handlers (components/Dashboard), the portfolio handlers of    *)
(* OptionChainTable / PortfolioAnalysis, the ConfigPanel, and the          *)
(* FinancialService functions they call.                                   *)
(*                                                                         *)
(* Numbers.  Prices and strikes are integers (currency units).  Log        *)
(* returns, volatilities and IVs are fixed point, in thousandths.  Dates   *)
(* 'YYYY-MM-DD' are day numbers since 1970-01-01.  A nullable value is a   *)
(* sequence: <<>> is null / undefined, <<v>> is the value v.               *)
(***************************************************************************)
EXTENDS Integers, Sequences, FiniteSets, TLC

VARIABLES
    stockTicker,        \* Dashboard prop
    stockData,          \* useState<StockData | null>
    liveStockData,      \* useState<LiveStockData | null>
    summaryStats,       \* useState<SummaryStats | null>
    optionChain,        \* useState<OptionChain | null>
    portfolio,          \* useState<PortfolioPosition[]>
    config,             \* useState<Config>
    loading,            \* useState(true)
    apiError,           \* useState<string | null>
    gammaHedge,         \* useState<GammaHedgeSuggestion | null>
    pc,                 \* position of the running fetchData call
    currentConfig,      \* fetchData parameter
    existingPortfolio,  \* fetchData parameter
    data,               \* fetchData local `data`
    call,               \* the last call made (a handler or a service function)
                        \* with its arguments
    returned,           \* what the last service function call returned
    cachedCrumb,        \* api/yahoo.ts: let cachedCrumb: string | null
    cachedCookie,       \* api/yahoo.ts: let cachedCookie: string | null
    requests            \* the requests of the proxy: the position of each
                        \* handler call, its locals, what it sent and fetched

dashboardVars == <<stockTicker, stockData, liveStockData, summaryStats, optionChain,
                   portfolio, config, loading, apiError, gammaHedge, pc, currentConfig,
                   existingPortfolio, data>>

proxyVars == <<cachedCrumb, cachedCookie, requests>>

vars == <<dashboardVars, call, returned, proxyVars>>

(***************************************************************************)
(* Bounds of the model.                                                    *)
(***************************************************************************)
MaxQuantity == 2        \* |quantity| a position may reach
MaxPositions == 2       \* positions a portfolio may hold
MaxRequests == 2        \* requests the proxy is sent

Requests == 1..MaxRequests

\* a request that has not arrived
NoRequest == [pc |-> "none"]

(***************************************************************************)
(* Generic helpers.                                                        *)
(***************************************************************************)
Max(a, b) == IF a >= b THEN a ELSE b

Abs(a) == IF a < 0 THEN -a ELSE a

Range(s) == {s[i] : i \in 1..Len(s)}

RECURSIVE SumSeq(_)
SumSeq(s) == IF s = <<>> THEN 0 ELSE Head(s) + SumSeq(Tail(s))

RECURSIVE Flat(_)
\* Array.prototype.flat() on an array of arrays
Flat(ss) == IF ss = <<>> THEN <<>> ELSE Head(ss) \o Flat(Tail(ss))

Min(a, b) == IF a <= b THEN a ELSE b

RECURSIVE SqrtBetween(_, _, _)
\* the largest k in lo..hi with k * k <= n, by bisection
SqrtBetween(n, lo, hi) ==
    IF lo = hi THEN lo
    ELSE LET mid == (lo + hi + 1) \div 2
         IN  IF mid * mid <= n THEN SqrtBetween(n, mid, hi)
             ELSE SqrtBetween(n, lo, mid - 1)

\* Math.sqrt, rounded down
Sqrt(n) == SqrtBetween(n, 0, Min(n, 46340))

\* Math.round(num / den) for den > 0: rounds half up
RoundDiv(num, den) == (2 * num + den) \div (2 * den)

\* Math.log(p / q) in thousandths, p, q > 0: 2 atanh(x), x = (p-q)/(p+q),
\* by the first two terms of its series
Log(p, q) ==
    LET x == ((p - q) * 1000) \div (p + q)
    IN  2 * x + (2 * x * x * x) \div 3000000

\* The value of 0/0
NaN == 0 - 2^30

(***************************************************************************)
(* Inputs of the model: tickers, dates, provider answers.                  *)
(***************************************************************************)
Tickers == {"LT", "TCS"}

\* the stock chosen in the StockSelector, the Dashboard's stockTicker
SelectedStock == "LT"

\* ticker.split('') as char codes
CharCodes(ticker) ==
    IF ticker = "LT" THEN <<76, 84>> ELSE <<84, 67, 83>>

\* new Date() of the session, as a day number (2026-11-05, a Thursday)
Today == 20762

\* milliseconds and seconds of a day: Date.getTime() and Yahoo timestamps
DayMs == 86400000

DaySeconds == 86400

\* Date.getDay(): 0 = Sunday .. 6 = Saturday (day 0 was a Thursday)
GetDay(day) == (day + 4) % 7

(***************************************************************************)
(* FinancialService: fallback simulation.                                  *)
(***************************************************************************)
\* seed % m for seed = sum of char codes + new Date(startDateStr).getTime(),
\* computed without forming the millisecond count
SeedMod(ticker, startDate, m) ==
    (SumSeq(CharCodes(ticker)) + startDate * (DayMs % m)) % m

\* getNormal(rand1, rand2) on the i-th draws of mulberry32(seed) and
\* mulberry32(seed + 1): a deterministic function of the seed and of i,
\* here with whole values in -2..2
getNormal(ticker, startDate, i) ==
    ((SeedMod(ticker, startDate, 9973) * 31 + i * 17) % 5) - 2

RECURSIVE GBMLoop(_, _, _, _, _, _)
\* the while loop of simulateStockDataUsingGBM; draws counts the calls of
\* getNormal so far
GBMLoop(ticker, startDate, currentDate, endDate, currentPrice, draws) ==
    IF currentDate > endDate THEN <<>>
    ELSE IF GetDay(currentDate) # 0 /\ GetDay(currentDate) # 6
    THEN LET sigma == 200 + SeedMod(ticker, startDate, 20) * 10
             mu == 150 + SeedMod(ticker, startDate, 10) * 10
             drift == (mu - (sigma * sigma) \div 2000) \div 252
             Z == getNormal(ticker, startDate, draws)
             \* Math.exp(x) to first order, x in thousandths
             next == (currentPrice * (1000 + drift + ((sigma * 63) \div 1000) * Z)) \div 1000
         IN  <<[date |-> currentDate, price |-> currentPrice]>>
             \o GBMLoop(ticker, startDate, currentDate + 1, endDate,
                        Max(10, next), draws + 1)
    ELSE GBMLoop(ticker, startDate, currentDate + 1, endDate, currentPrice, draws)

SimulatedTicker(ticker) == "(Simulated) " \o ticker

simulateStockDataUsingGBM(ticker, startDate, endDate) ==
    LET basePrice == 200 + SeedMod(ticker, startDate, 300)
        walked == GBMLoop(ticker, startDate, startDate, endDate, basePrice, 0)
        historicalData ==
            IF Len(walked) = 0
            THEN <<[date |-> endDate, price |-> basePrice]>>
            ELSE walked
    IN  [ticker |-> SimulatedTicker(ticker),
         lastPrice |-> historicalData[Len(historicalData)].price,
         historicalData |-> historicalData]

(***************************************************************************)
(* FinancialService.getStockData.                                          *)
(* A provider answer is [rejected, ok, result]: rejected = fetch() threw;  *)
(* ok = response.ok; result = data?.chart?.result?.[0] (nullable), with    *)
(* timestamp (nullable array) and close = indicators.quote[0].close        *)
(* (nullable array of nullable numbers).  A promise is nullable too: <<>>  *)
(* is a rejected promise, <<v>> one resolved with v.                       *)
(***************************************************************************)
\* close[i]: undefined past the end of the array
CloseAt(close, i) == IF i <= Len(close) THEN close[i] ELSE <<>>

RECURSIVE ValidPoints_NonNegative(_, _, _)
\* the for loop with `price !== null && price >= 0`
ValidPoints_NonNegative(timestamp, close, i) ==
    IF i > Len(timestamp) THEN <<>>
    ELSE LET price == CloseAt(close, i)
         IN  (IF price # <<>> /\ price[1] >= 0
              THEN <<[date |-> timestamp[i] \div DaySeconds, price |-> price[1]]>>
              ELSE <<>>)
             \o ValidPoints_NonNegative(timestamp, close, i + 1)

RECURSIVE ValidPoints(_, _, _)
\* the for loop over result.timestamp, from index i on
ValidPoints(timestamp, close, i) ==
    IF i > Len(timestamp) THEN <<>>
    ELSE LET price == CloseAt(close, i)
         IN  (IF price # <<>> /\ price[1] > 0
              THEN <<[date |-> timestamp[i] \div DaySeconds, price |-> price[1]]>>
              ELSE <<>>)
             \o ValidPoints(timestamp, close, i + 1)

\* the try block of getStockData: <<>> where it throws
TryFetch(ticker, resp) ==
    IF resp.rejected \/ ~resp.ok THEN <<>>
    ELSE IF resp.result = <<>> THEN <<>>
    ELSE IF resp.result[1].timestamp = <<>> \/ resp.result[1].close = <<>> THEN <<>>
    ELSE LET historicalData ==
                 ValidPoints(resp.result[1].timestamp[1], resp.result[1].close[1], 1)
         IN  IF Len(historicalData) = 0 THEN <<>>
             ELSE <<[ticker |-> ticker,
                     lastPrice |-> historicalData[Len(historicalData)].price,
                     historicalData |-> historicalData]>>

\* getStockData without the catch block
getStockData_NoCatch(ticker, startDate, endDate, resp) == TryFetch(ticker, resp)

\* try { ... } catch (error) { return this.simulateStockDataUsingGBM(...) }
getStockData(ticker, startDate, endDate, resp) ==
    LET attempt == TryFetch(ticker, resp)
    IN  IF attempt # <<>> THEN attempt
        ELSE <<simulateStockDataUsingGBM(ticker, startDate, endDate)>>

\* Yahoo timestamps of n consecutive days ending today, 03:45 UTC
Stamps(n) == [i \in 1..n |-> (Today - n + i) * DaySeconds + 13500]

Answer(rejected, ok, result) == [rejected |-> rejected, ok |-> ok, result |-> result]

Chart(timestamp, close) == <<[timestamp |-> timestamp, close |-> close]>>

\* the answers the provider gives in the model
ProviderAnswers ==
    { Answer(TRUE, FALSE, <<>>),                     \* network error
      Answer(FALSE, FALSE, <<>>),                    \* non-OK status
      Answer(FALSE, TRUE, <<>>),                     \* no chart.result[0]
      Answer(FALSE, TRUE, Chart(<<>>, << << <<10>> >> >>)),     \* no timestamp
      Answer(FALSE, TRUE, Chart(<<Stamps(3)>>, << << <<0>>, <<-3>>, <<>> >> >>)),
      Answer(FALSE, TRUE, Chart(<<Stamps(4)>>, << << <<10>>, <<>>, <<11>>, <<10>> >> >>)),
      Answer(FALSE, TRUE, Chart(<<Stamps(1)>>, << << <<11>>, <<12>> >> >>)) }


(***************************************************************************)
(* FinancialService.calculateSummaryStatistics.                            *)
(***************************************************************************)
\* the returns on the first price instead of on the price before
LogReturns_OnFirst(prices) == [i \in 1..(Len(prices) - 1) |-> Log(prices[i + 1], prices[1])]

\* prices.slice(1).map((p, i) => Math.log(p / prices[i]))
LogReturns(prices) == [i \in 1..(Len(prices) - 1) |-> Log(prices[i + 1], prices[i])]

\* returns.reduce((sum, r) => sum + Math.pow(r - mean, k), 0), k = 2, 3, 4;
\* the third and fourth powers are kept in thousandths
PowerSum(returns, mean, k) ==
    SumSeq([i \in 1..Len(returns) |->
              LET d == returns[i] - mean
              IN  IF k = 2 THEN d * d
                  ELSE IF k = 3 THEN d * d * d
                  ELSE d * d * d * d])

\* num / den in hundredths, for moments of which num = 0 when den = 0;
\* 0/0 is NaN
Ratio(num, den) ==
    IF den = 0 THEN NaN
    ELSE IF Abs(num) < 2^24 THEN (num * 100) \div den
    ELSE IF den >= 100 THEN num \div (den \div 100)
    ELSE (num \div den) * 100

calculateSummaryStatistics(prices) ==
    LET returns == LogReturns(prices)
        n == Len(returns)
    IN  IF n < 2
        THEN [dailyLogReturns |-> <<>>, annualizedVolatility |-> 0,
              skewness |-> 0, kurtosis |-> 0]
        ELSE LET mean == SumSeq(returns) \div n
                 stdDev == Sqrt(PowerSum(returns, mean, 2) \div (n - 1))
                 \* Math.sqrt(252) = 15.875
                 annualizedVolatility == (stdDev * 15875) \div 1000
                 m3 == PowerSum(returns, mean, 3) \div n
                 skewness == Ratio(m3, stdDev * stdDev * stdDev)
                 m4 == PowerSum(returns, mean, 4) \div n
                 ratio4 == Ratio(m4, stdDev * stdDev * stdDev * stdDev)
                 kurtosis == IF ratio4 = NaN THEN NaN ELSE ratio4 - 300
             IN  [dailyLogReturns |-> returns,
                  annualizedVolatility |-> annualizedVolatility,
                  skewness |-> skewness, kurtosis |-> kurtosis]

(***************************************************************************)
(* FinancialService.bsm and generateOptionChain.                           *)
(***************************************************************************)
OptionTypes == <<"Call", "Put">>

\* the result of bsm(S, K, maturity / 252, sigma, r, optionType), kept as
\* the call it is the value of: price, greeks, d1 and d2 are functions of
\* these six arguments
bsm(S, K, maturity, sigma, r, optionType) ==
    [S |-> S, K |-> K, maturity |-> maturity, sigma |-> sigma, r |-> r,
     optionType |-> optionType]

\* `${strike}-${maturity}-${type}`
OptionId(strike, maturity, type) ==
    ToString(strike) \o "-" \o ToString(maturity) \o "-" \o type

RECURSIVE Dedup(_)
\* [...new Set(xs)]: first occurrences, in order
Dedup(xs) ==
    IF xs = <<>> THEN <<>>
    ELSE LET front == Dedup(SubSeq(xs, 1, Len(xs) - 1))
             last == xs[Len(xs)]
         IN  IF last \in Range(front) THEN front ELSE Append(front, last)

RECURSIVE SortAsc(_)
\* xs.sort((a, b) => a - b)
SortAsc(xs) ==
    IF xs = <<>> THEN <<>>
    ELSE LET m == CHOOSE x \in Range(xs) : \A y \in Range(xs) : x <= y
             k == CHOOSE i \in 1..Len(xs) : xs[i] = m
         IN  <<m>> \o SortAsc(SubSeq(xs, 1, k - 1) \o SubSeq(xs, k + 1, Len(xs)))

maturities == <<30, 60, 90>>

\* currentPrice * m for the strikeMultipliers [0.95, 0.98, 1, 1.02, 1.05]
strikeMultipliers == <<95, 98, 100, 102, 105>>

generatedStrikes(currentPrice) ==
    [i \in 1..Len(strikeMultipliers) |-> RoundDiv(currentPrice * strikeMultipliers[i], 100)]

\* the strikes without the existing ones
ChainStrikes_GeneratedOnly(currentPrice, existingStrikes) ==
    SortAsc(Dedup(generatedStrikes(currentPrice)))

\* the strikes without the Set
ChainStrikes_NoSet(currentPrice, existingStrikes) ==
    SortAsc(generatedStrikes(currentPrice) \o existingStrikes)

ChainStrikes(currentPrice, existingStrikes) ==
    SortAsc(Dedup(generatedStrikes(currentPrice) \o existingStrikes))

\* histVolatility * (1 + 0.2 * moneyness^2 - 0.1 * moneyness)
SmileIv(currentPrice, strike, histVolatility) ==
    LET moneyness == Log(strike, currentPrice)
    IN  (histVolatility * (1000 + (moneyness * moneyness) \div 5000 - moneyness \div 10))
            \div 1000

MakeOption(currentPrice, histVolatility, riskFreeRate, strike, maturity, type) ==
    LET iv == SmileIv(currentPrice, strike, histVolatility)
    IN  [id |-> OptionId(strike, maturity, type),
         strike |-> strike, maturity |-> maturity, type |-> type, iv |-> iv,
         bsm |-> bsm(currentPrice, strike, maturity, iv, riskFreeRate, type),
         bsmHistVol |-> bsm(currentPrice, strike, maturity, histVolatility,
                            riskFreeRate, type)]

\* chain[maturity]: for each strike, the Call then the Put
ChainRow(currentPrice, histVolatility, riskFreeRate, strikes, maturity) ==
    [k \in 1..(2 * Len(strikes)) |->
        MakeOption(currentPrice, histVolatility, riskFreeRate,
                   strikes[(k + 1) \div 2], maturity, OptionTypes[2 - (k % 2)])]

\* the chain object: a map from maturity to the options of that maturity
generateOptionChain(currentPrice, histVolatility, riskFreeRate, existingStrikes) ==
    LET strikes == ChainStrikes(currentPrice, existingStrikes)
    IN  [maturity \in Range(maturities) |->
            ChainRow(currentPrice, histVolatility, riskFreeRate, strikes, maturity)]

RECURSIVE KeysAsc(_)
\* the integer keys of an object, in ascending order
KeysAsc(S) ==
    IF S = {} THEN <<>>
    ELSE LET m == CHOOSE x \in S : \A y \in S : x <= y
         IN  <<m>> \o KeysAsc(S \ {m})

\* Object.values(chain).flat()
AllOptions(chain) ==
    LET keys == KeysAsc(DOMAIN chain)
    IN  Flat([i \in 1..Len(keys) |-> chain[keys[i]]])

(***************************************************************************)
(* ConfigPanel.                                                            *)
(***************************************************************************)
\* parseFloat / parseInt of a text field: NaN for the empty field
ParseNumber(text) ==
    IF text = "" THEN NaN ELSE CHOOSE n \in 0..99 : ToString(n) = text

\* x || 0
OrZero(x) == IF x = NaN \/ x = 0 THEN 0 ELSE x

\* getInitialStartDate: the days of history of the initial config (90 in the
\* program; the model keeps the series short)
InitialSpan == 12

InitialConfig ==
    [riskFreeRate |-> 7, lotSize |-> 1,
     startDate |-> Today - InitialSpan, endDate |-> Today]

Draft(riskFreeRate, lotSize, startDate, endDate) ==
    [riskFreeRate |-> riskFreeRate, lotSize |-> lotSize,
     startDate |-> startDate, endDate |-> endDate]

\* what the user leaves in the four fields before pressing RUN
DraftConfigs ==
    { Draft("7", "1", Today - InitialSpan, Today),
      Draft("5", "2", Today - InitialSpan, Today),
      Draft("", "1", Today - 5, Today - 4) }        \* a Saturday and a Sunday

\* the config as the hasChanges effect stringifies it
Stringified(cfg) ==
    [riskFreeRate |-> cfg.riskFreeRate, lotSize |-> cfg.lotSize,
     startDate |-> cfg.startDate, endDate |-> cfg.endDate]

hasChanges(cfg, draftConfig) ==
    Stringified(cfg) #
        Stringified([draftConfig EXCEPT
                        !.riskFreeRate = ParseNumber(draftConfig.riskFreeRate),
                        !.lotSize = ParseNumber(draftConfig.lotSize)])

\* handleApply: the parsedConfig handed to onApplyChanges
parsedConfig(draftConfig) ==
    [riskFreeRate |-> OrZero(ParseNumber(draftConfig.riskFreeRate)),
     lotSize |-> OrZero(ParseNumber(draftConfig.lotSize)),
     startDate |-> draftConfig.startDate, endDate |-> draftConfig.endDate]


(***************************************************************************)
(* Portfolio handlers (OptionChainTable, PortfolioAnalysis).               *)
(***************************************************************************)
\* the index of the first element of xs with the given option id, 0 if none
FindIndex(ids, id) ==
    IF \E i \in 1..Len(ids) : ids[i] = id
    THEN CHOOSE i \in 1..Len(ids) : ids[i] = id /\ \A j \in 1..(i - 1) : ids[j] # id
    ELSE 0

PositionIds(positions) == [i \in 1..Len(positions) |-> positions[i].option.id]

OptionIds(options) == [i \in 1..Len(options) |-> options[i].id]

\* handleUpdateQuantity without the removal at quantity 0
handleUpdateQuantity_KeepsZero(prevPortfolio, option, change) ==
    LET found == FindIndex(PositionIds(prevPortfolio), option.id)
    IN  IF found # 0
        THEN [i \in 1..Len(prevPortfolio) |->
                 IF prevPortfolio[i].option.id = option.id
                 THEN [prevPortfolio[i] EXCEPT !.quantity = @ + change]
                 ELSE prevPortfolio[i]]
        ELSE IF change # 0
        THEN Append(prevPortfolio, [option |-> option, quantity |-> change])
        ELSE prevPortfolio

\* handleUpdateQuantity without the look-up of the held position
handleUpdateQuantity_Appends(prevPortfolio, option, change) ==
    IF change # 0
    THEN Append(prevPortfolio, [option |-> option, quantity |-> change])
    ELSE prevPortfolio

\* the updater handleUpdateQuantity passes to setPortfolio
handleUpdateQuantity(prevPortfolio, option, change) ==
    LET found == FindIndex(PositionIds(prevPortfolio), option.id)
    IN  IF found # 0
        THEN LET newQuantity == prevPortfolio[found].quantity + change
             IN  IF newQuantity = 0
                 THEN SelectSeq(prevPortfolio, LAMBDA p : p.option.id # option.id)
                 ELSE [i \in 1..Len(prevPortfolio) |->
                          IF prevPortfolio[i].option.id = option.id
                          THEN [prevPortfolio[i] EXCEPT !.quantity = newQuantity]
                          ELSE prevPortfolio[i]]
        ELSE IF change # 0
        THEN Append(prevPortfolio, [option |-> option, quantity |-> change])
        ELSE prevPortfolio

\* the updater handleRemovePosition passes to setPortfolio
handleRemovePosition(prev, optionId) ==
    SelectSeq(prev, LAMBDA p : p.option.id # optionId)

(***************************************************************************)
(* Dashboard.                                                              *)
(***************************************************************************)
\* the live option chain of the provider: the service has no market-quote
\* chain, the call rejects (<<>>) and fetchData falls back
getOptionChain(ticker, lastPrice, histVolatility, riskFreeRate) == <<>>

simulateOptionChain(currentPrice, histVolatility, riskFreeRate, existingStrikes) ==
    generateOptionChain(currentPrice, histVolatility, riskFreeRate, existingStrikes)

\* generateLiveStockData: the quote of the day around lastPrice
generateLiveStockData(ticker, lastPrice) == [close |-> lastPrice]

Prices(historicalData) == [i \in 1..Len(historicalData) |-> historicalData[i].price]

\* the re-pricing with find(opt => opt === pos.option): by object, not by id
Reprice_ByObject(positions, allNewOptions) ==
    SelectSeq(positions, LAMBDA pos : pos.option \in Range(allNewOptions))

RECURSIVE Reprice_KeepsOption(_, _)
\* the re-pricing that keeps the option of a position whose id is found
Reprice_KeepsOption(positions, allNewOptions) ==
    IF positions = <<>> THEN <<>>
    ELSE LET pos == Head(positions)
             found == FindIndex(OptionIds(allNewOptions), pos.option.id)
         IN  (IF found # 0 THEN <<pos>> ELSE <<>>)
             \o Reprice_KeepsOption(Tail(positions), allNewOptions)

RECURSIVE Reprice(_, _)
\* existingPortfolio.forEach(pos => { find the new option by id; push })
Reprice(positions, allNewOptions) ==
    IF positions = <<>> THEN <<>>
    ELSE LET pos == Head(positions)
             found == FindIndex(OptionIds(allNewOptions), pos.option.id)
         IN  (IF found # 0
              THEN <<[option |-> allNewOptions[found], quantity |-> pos.quantity]>>
              ELSE <<>>)
             \o Reprice(Tail(positions), allNewOptions)

\* the render guards without `if (loading)`
Rendered_WhileLoading ==
    /\ stockData # <<>> /\ summaryStats # <<>>
    /\ optionChain # <<>> /\ liveStockData # <<>>

\* the dashboard body is rendered: not the spinner, not the failure notice
Rendered ==
    /\ ~loading
    /\ stockData # <<>> /\ summaryStats # <<>>
    /\ optionChain # <<>> /\ liveStockData # <<>>

\* the tab OptionChainTable shows: useState(maturities[0])
selectedMaturity == maturities[1]

\* the options whose quantity controls the user reaches for: the first
\* row (lowest strike) of the shown maturity, its Call and its Put
ShownOptions ==
    IF optionChain = <<>> THEN {}
    ELSE LET row == optionChain[1][selectedMaturity]
         IN  {row[k] : k \in 1..Len(OptionTypes)}

WithinBounds(positions) ==
    /\ Len(positions) <= MaxPositions
    /\ \A i \in 1..Len(positions) : Abs(positions[i].quantity) <= MaxQuantity

\* the body of the gamma hedge effect.  The suggestion is kept as the call
\* of calculateGammaHedge it is the value of
GammaHedgeOf(positions, chain) ==
    IF Len(positions) > 0 /\ chain # <<>>
    THEN <<[fn |-> "calculateGammaHedge", portfolio |-> positions,
            optionChain |-> chain[1]]>>
    ELSE <<>>

\* the effect with the dependencies [optionChain, financialService]
GammaHedgeEffect_ChainOnly(prevPortfolio, prevChain, positions, chain, stored) ==
    IF chain # prevChain THEN GammaHedgeOf(positions, chain) ELSE stored

\* useEffect(.., [portfolio, optionChain, financialService]) after a render:
\* the body runs if portfolio or optionChain is not what it was
GammaHedgeEffect(prevPortfolio, prevChain, positions, chain, stored) ==
    IF positions # prevPortfolio \/ chain # prevChain
    THEN GammaHedgeOf(positions, chain)
    ELSE stored

\* fetchData up to its first await: setLoading(true); setApiError(null)
StartFetch(cfg, existing) ==
    /\ loading' = TRUE
    /\ apiError' = <<>>
    /\ pc' = "delay"
    /\ currentConfig' = cfg
    /\ existingPortfolio' = existing

Init ==
    /\ stockTicker = SelectedStock
    /\ stockData = <<>> /\ liveStockData = <<>>
    /\ summaryStats = <<>> /\ optionChain = <<>>
    /\ portfolio = <<>>
    /\ config = InitialConfig
    /\ loading = TRUE
    /\ apiError = <<>>
    /\ gammaHedge = <<>>
    /\ pc = "delay"
    /\ currentConfig = InitialConfig
    /\ existingPortfolio = <<>>
    /\ data = <<>>
    /\ call = <<>> /\ returned = <<>>
    /\ cachedCrumb = <<>> /\ cachedCookie = <<>>
    /\ requests = [r \in Requests |-> NoRequest]

\* the 300 ms delay ends; getStockData issues fetch(url)
DelayElapsed ==
    /\ pc = "delay"
    /\ pc' = "fetch"
    /\ UNCHANGED <<proxyVars, stockTicker, stockData, liveStockData, summaryStats,
                   optionChain,
                   portfolio, config, loading, apiError, gammaHedge, currentConfig,
                   existingPortfolio, data, call, returned>>

\* fetch(url) settles and getStockData returns; fetchData awaits getOptionChain
GetStockDataReturns(answer) ==
    /\ pc = "fetch"
    /\ data' = getStockData(stockTicker, currentConfig.startDate,
                            currentConfig.endDate, answer)
    /\ pc' = "chain"
    /\ UNCHANGED <<proxyVars, stockTicker, stockData, liveStockData, summaryStats,
                   optionChain,
                   portfolio, config, loading, apiError, gammaHedge, currentConfig,
                   existingPortfolio, call, returned>>

\* the rest of fetchData: the chain, the setters, the re-pricing; catch
\* where getStockData rejected; finally
FetchDataCompletes ==
    /\ pc = "chain"
    /\ IF data # <<>>
       THEN LET d == data[1]
                existingStrikes ==
                    [i \in 1..Len(existingPortfolio) |->
                        existingPortfolio[i].option.strike]
                stats == calculateSummaryStatistics(Prices(d.historicalData))
                live == getOptionChain(stockTicker, d.lastPrice,
                                       stats.annualizedVolatility,
                                       currentConfig.riskFreeRate)
                chain == IF live # <<>> THEN live[1]
                         ELSE simulateOptionChain(d.lastPrice,
                                                  stats.annualizedVolatility,
                                                  currentConfig.riskFreeRate,
                                                  existingStrikes)
            IN  /\ apiError' = IF d.ticker # stockTicker THEN <<"simulation">>
                               ELSE apiError
                /\ stockData' = <<d>>
                /\ liveStockData' = <<generateLiveStockData(stockTicker, d.lastPrice)>>
                /\ summaryStats' = <<stats>>
                /\ optionChain' = <<chain>>
                /\ portfolio' = IF Len(existingPortfolio) > 0
                                THEN Reprice(existingPortfolio, AllOptions(chain))
                                ELSE <<>>
       ELSE /\ apiError' = <<"critical">>
            /\ UNCHANGED <<proxyVars, stockData, liveStockData, summaryStats, optionChain,
                           portfolio>>
    /\ loading' = FALSE
    /\ pc' = "idle"
    /\ existingPortfolio' = <<>>
    /\ data' = <<>>
    /\ gammaHedge' = GammaHedgeEffect(portfolio, optionChain, portfolio', optionChain',
                                      gammaHedge)
    /\ UNCHANGED <<proxyVars, stockTicker, config, currentConfig, call, returned>>

\* a click on + or - of an option of the shown maturity
ClickQuantity(option, change) ==
    /\ Rendered
    /\ WithinBounds(handleUpdateQuantity(portfolio, option, change))
    /\ portfolio' = handleUpdateQuantity(portfolio, option, change)
    /\ call' = <<[fn |-> "handleUpdateQuantity", option |-> option.id,
                  change |-> change]>>
    /\ gammaHedge' = GammaHedgeEffect(portfolio, optionChain, portfolio', optionChain,
                                      gammaHedge)
    /\ UNCHANGED <<proxyVars, stockTicker, stockData, liveStockData, summaryStats,
                   optionChain,
                   config, loading, apiError, pc, currentConfig, existingPortfolio,
                   data, returned>>

\* a click on the remove button of a position
ClickRemove(optionId) ==
    /\ Rendered
    /\ portfolio' = handleRemovePosition(portfolio, optionId)
    /\ call' = <<[fn |-> "handleRemovePosition", optionId |-> optionId]>>
    /\ gammaHedge' = GammaHedgeEffect(portfolio, optionChain, portfolio', optionChain,
                                      gammaHedge)
    /\ UNCHANGED <<proxyVars, stockTicker, stockData, liveStockData, summaryStats,
                   optionChain,
                   config, loading, apiError, pc, currentConfig, existingPortfolio,
                   data, returned>>

\* handleApplyConfig without the call of fetchData
handleApplyConfig_SetConfigOnly(draftConfig) ==
    /\ ~loading
    /\ stockData # <<>> /\ summaryStats # <<>>
    /\ optionChain # <<>> /\ liveStockData # <<>>
    /\ hasChanges(config, draftConfig)
    /\ config' = parsedConfig(draftConfig)
    /\ call' = <<[fn |-> "handleApplyConfig", newConfig |-> parsedConfig(draftConfig)]>>
    /\ UNCHANGED <<proxyVars, stockTicker, stockData, liveStockData, summaryStats,
                   optionChain,
                   portfolio, loading, apiError, gammaHedge, pc, currentConfig,
                   existingPortfolio, data, returned>>

\* RUN in the ConfigPanel: handleApply, then Dashboard.handleApplyConfig
handleApplyConfig(draftConfig) ==
    /\ Rendered
    /\ hasChanges(config, draftConfig)
    /\ config' = parsedConfig(draftConfig)
    /\ StartFetch(parsedConfig(draftConfig), portfolio)
    /\ call' = <<[fn |-> "handleApplyConfig", newConfig |-> parsedConfig(draftConfig)]>>
    /\ UNCHANGED <<proxyVars, stockTicker, stockData, liveStockData, summaryStats,
                   optionChain,
                   portfolio, gammaHedge, data, returned>>

Next ==
    \/ DelayElapsed
    \/ \E answer \in ProviderAnswers : GetStockDataReturns(answer)
    \/ FetchDataCompletes
    \/ \E option \in ShownOptions, change \in {-1, 0, 1} :
           ClickQuantity(option, change)
    \/ \E i \in 1..Len(portfolio) : ClickRemove(portfolio[i].option.id)
    \/ \E draftConfig \in DraftConfigs : handleApplyConfig(draftConfig)

Spec == Init /\ [][Next]_vars

(***************************************************************************)
(* The same program under the scheduling the code gives it: the 300 ms     *)
(* timer fires, and a settled getStockData promise resumes fetchData.      *)
(* Nothing in getStockData bounds the wait for fetch(url): the provider's  *)
(* answer is the environment's step and has no fairness.                   *)
(***************************************************************************)
\* the steps in which fetchData resumes after getStockData settled and runs
\* to its end: under Next, exactly the steps of FetchDataCompletes, which
\* is enabled whenever pc = "chain"
FetchDataResumes == pc = "chain" /\ pc' = "idle"

FairSpec ==
    /\ Init
    /\ [][Next]_vars
    /\ WF_vars(DelayElapsed)
    /\ WF_pc(FetchDataResumes)

(***************************************************************************)
(* FinancialService functions called on their own, on bounded arguments.   *)
(***************************************************************************)
\* (startDate, endDate) pairs: the initial span, three days, a weekend,
\* a start after the end
DateRanges ==
    { <<Today - InitialSpan, Today>>, <<Today - 3, Today>>,
      <<Today - 5, Today - 4>>, <<Today, Today - 1>> }

\* provider answers beyond those the dashboard runs see: closes that mix
\* usable, zero, null and negative values; fewer closes than timestamps
ServiceAnswers ==
    ProviderAnswers \cup
    { Answer(FALSE, TRUE,
             Chart(<<Stamps(5)>>, << << <<10>>, <<0>>, <<>>, <<-2>>, <<12>> >> >>)),
      Answer(FALSE, TRUE, Chart(<<Stamps(3)>>, << << <<>>, <<7>> >> >>)) }

SpotPrices == {10, 25, 100, 333}

HistVolatilities == {0, 250}

RiskFreeRates == {0, 7}

ExistingStrikeLists ==
    { <<>>, <<100>>, <<7>>, <<7, 7>>, <<120, 95>>, <<1000, 3>> }

CallGetStockData(ticker, startDate, endDate, answer) ==
    /\ call' = <<[fn |-> "getStockData", ticker |-> ticker,
                  startDate |-> startDate, endDate |-> endDate,
                  answer |-> answer]>>
    /\ returned' = getStockData(ticker, startDate, endDate, answer)
    /\ UNCHANGED <<dashboardVars, proxyVars>>

CallGenerateOptionChain(currentPrice, histVolatility, riskFreeRate, existingStrikes) ==
    /\ call' = <<[fn |-> "generateOptionChain", currentPrice |-> currentPrice,
                  histVolatility |-> histVolatility,
                  riskFreeRate |-> riskFreeRate,
                  existingStrikes |-> existingStrikes]>>
    /\ returned' = <<generateOptionChain(currentPrice, histVolatility,
                                         riskFreeRate, existingStrikes)>>
    /\ UNCHANGED <<dashboardVars, proxyVars>>

\* price series: none, one and two prices (fewer than 2 returns), constant
\* series, and rising, falling and mixed ones
PriceSeries ==
    { <<>>, <<100>>, <<100, 110>>, <<100, 100, 100>>, <<7, 7, 7, 7>>,
      <<100, 110, 121>>, <<100, 110, 90>>, <<120, 100, 90, 95>>,
      <<100, 101, 99, 104, 100>> }

CallCalculateSummaryStatistics(prices) ==
    /\ call' = <<[fn |-> "calculateSummaryStatistics", prices |-> prices]>>
    /\ returned' = calculateSummaryStatistics(prices)
    /\ UNCHANGED <<dashboardVars, proxyVars>>

ServiceNext ==
    \/ \E ticker \in Tickers, range \in DateRanges, answer \in ServiceAnswers :
           CallGetStockData(ticker, range[1], range[2], answer)
    \/ \E currentPrice \in SpotPrices, histVolatility \in HistVolatilities,
          riskFreeRate \in RiskFreeRates, existingStrikes \in ExistingStrikeLists :
           CallGenerateOptionChain(currentPrice, histVolatility, riskFreeRate,
                                   existingStrikes)
    \/ \E prices \in PriceSeries : CallCalculateSummaryStatistics(prices)

ServiceSpec == Init /\ [][ServiceNext]_vars

\* the last call is a call of the service function fn
Called(fn) == call # <<>> /\ call[1].fn = fn

(***************************************************************************)
(* Numbers of FinancialService.bsm.  The prices and greeks are decimals    *)
(* with 12 places, computed as the code computes them; a double carries    *)
(* 15 to 16 significant digits, so the two agree to about 10 places.       *)
(***************************************************************************)
\* TLC computes an operator's argument where the operator first uses it;
\* Known(v) is that use
Known(v) == v = v

\* Natural numbers of any size: little-endian sequences of limbs in base 10^4,
\* without high zero limbs; <<>> is 0
Base == 10000

\* the limb i of a, 0 beyond its length.  TLC computes the sequence anew at
\* every a[i] unless it was computed before, as Len(a) does here
Limb(a, i) == IF i >= 1 /\ i <= Len(a) THEN a[i] ELSE 0
\* the element i <= Len(s) of the sequence s
At(s, i) == IF i <= Len(s) THEN s[i] ELSE s

\* w without its high zero limbs
Top(w) ==
    IF \A i \in 1..Len(w) : Limb(w, i) = 0 THEN 0
    ELSE CHOOSE i \in 1..Len(w) : Limb(w, i) # 0 /\ \A j \in (i + 1)..Len(w) : Limb(w, j) = 0
Trim(w) == SubSeq(w, 1, Top(w))

\* the limbs of the number sum of Limb(t, i) * Base^(i-1), 0 <= Limb(t, i) < 2^31, which
\* is below Base^Len(t): two passes leave carries of at most 1, which run on
\* through limbs that are Base - 1
Carry(t) ==
    LET u == [i \in 1..Len(t) |-> (Limb(t, i) % Base) + (Limb(t, i - 1) \div Base)]
        v == [i \in 1..Len(t) |-> (Limb(u, i) % Base) + (Limb(u, i - 1) \div Base)]
    IN  [i \in 1..Len(t) |->
            (Limb(v, i) + (IF \E j \in 1..(i - 1) :
                        Limb(v, j) >= Base /\ \A k \in (j + 1)..(i - 1) : Limb(v, k) = Base - 1
                    THEN 1 ELSE 0)) % Base]

NatOf(n) == Trim(<<n % Base, (n \div Base) % Base, n \div (Base * Base)>>)

NatAdd(a, b) ==
    Trim(Carry([i \in 1..(Max(Len(a), Len(b)) + 1) |-> Limb(a, i) + Limb(b, i)]))

\* -1, 0, 1 as a < b, a = b, a > b
NatCmp(a, b) ==
    IF Len(a) # Len(b) THEN (IF Len(a) < Len(b) THEN -1 ELSE 1)
    ELSE IF a = b THEN 0
    ELSE LET i == CHOOSE i \in 1..Len(a) :
                      Limb(a, i) # Limb(b, i) /\ \A j \in (i + 1)..Len(a) : Limb(a, j) = Limb(b, j)
         IN  IF Limb(a, i) < Limb(b, i) THEN -1 ELSE 1

\* a - b for a >= b: a limb borrows when a lower limb is short and the limbs
\* between are level
NatSub(a, b) ==
    LET d == [i \in 1..Len(a) |-> Limb(a, i) - Limb(b, i)]
    IN  Trim([i \in 1..Len(a) |->
                (Limb(d, i) + Base - (IF \E j \in 1..(i - 1) :
                                    Limb(d, j) < 0 /\ \A k \in (j + 1)..(i - 1) : Limb(d, k) = 0
                                THEN 1 ELSE 0)) % Base])

\* a * k for 0 <= k <= 200000
NatMulSmall(a, k) == Trim(Carry([i \in 1..(Len(a) + 2) |-> Limb(a, i) * k]))

\* a * Base^n for n <= 3, and floor(a / Base^n)
NatShift(a, n) == IF a = <<>> THEN a ELSE SubSeq(<<0, 0, 0>>, 1, n) \o a
NatDrop(a, n) == IF Len(a) <= n THEN <<>> ELSE SubSeq(a, n + 1, Len(a))

\* a * b for a of at most 8 limbs: the limb c holds the
\* products a[i] * b[c+1-i]
NatMulShort(a, b) ==
    Trim(Carry([c \in 1..(Len(a) + Len(b)) |->
        Limb(a, 1) * Limb(b, c) + Limb(a, 2) * Limb(b, c - 1)
        + Limb(a, 3) * Limb(b, c - 2) + Limb(a, 4) * Limb(b, c - 3)
        + Limb(a, 5) * Limb(b, c - 4) + Limb(a, 6) * Limb(b, c - 5)
        + Limb(a, 7) * Limb(b, c - 6) + Limb(a, 8) * Limb(b, c - 7)]))

\* a * b, one of them of at most 8 limbs
NatMul(a, b) == IF Len(a) <= Len(b) THEN NatMulShort(a, b) ELSE NatMulShort(b, a)

\* Base^0 .. Base^11 modulo k
PowersMod(k) ==
    LET p1 == Base % k
        p2 == (p1 * Base) % k
        p3 == (p2 * Base) % k
        p4 == (p3 * Base) % k
        p5 == (p4 * Base) % k
        p6 == (p5 * Base) % k
        p7 == (p6 * Base) % k
        p8 == (p7 * Base) % k
        p9 == (p8 * Base) % k
        p10 == (p9 * Base) % k
        p11 == (p10 * Base) % k
    IN  <<1 % k, p1, p2, p3, p4, p5, p6, p7, p8, p9, p10, p11>>

\* the limbs i.. of a, as a number, modulo k, for p = PowersMod(k)
RemFrom(a, k, p, i) ==
    (Limb(a, i) * Limb(p, 1) + Limb(a, i + 1) * Limb(p, 2) + Limb(a, i + 2) * Limb(p, 3)
     + Limb(a, i + 3) * Limb(p, 4) + Limb(a, i + 4) * Limb(p, 5) + Limb(a, i + 5) * Limb(p, 6)
     + Limb(a, i + 6) * Limb(p, 7) + Limb(a, i + 7) * Limb(p, 8) + Limb(a, i + 8) * Limb(p, 9)
     + Limb(a, i + 9) * Limb(p, 10) + Limb(a, i + 10) * Limb(p, 11) + Limb(a, i + 11) * Limb(p, 12)) % k

\* floor(a / k) for 0 < k <= Base and a of at most 12 limbs
NatDivSmallBy(a, k, p) ==
    Trim([i \in 1..Len(a) |-> (RemFrom(a, k, p, i + 1) * Base + Limb(a, i)) \div k])
NatDivSmall(a, k) == NatDivSmallBy(a, k, PowersMod(k))

\* the largest d with b * d <= r, for r < b * Base: it lies between the bounds
\* that the leading limbs of r and of b give
QuotientDigitIn(r, b, lo, hi) ==
    CHOOSE d \in lo..hi :
        /\ NatCmp(NatMulSmall(b, d), r) <= 0
        /\ \A e \in (d + 1)..hi : NatCmp(NatMulSmall(b, e), r) > 0
QuotientDigit(r, b, top, lead) ==
    QuotientDigitIn(r, b, top \div (lead + 1), Min(top \div lead, Base - 1))

\* one step of the long division by b: q and the remainder, with a limb more
DivStepBy(r, b, q, d) == [q |-> <<d>> \o q, r |-> NatSub(r, NatMulSmall(b, d))]
DivStepOf(r, b, q) ==
    DivStepBy(r, b, q,
              QuotientDigit(r, b, Limb(r, Len(b)) + Base * Limb(r, Len(b) + 1), Limb(b, Len(b))))
DivStep(limb, b, st) == DivStepOf(Trim(<<limb>> \o st.r), b, st.q)

RECURSIVE LongDiv(_, _, _, _)
\* the quotient and the remainder of a by b # 0, from st, those of the limbs
\* above i of a
LongDiv(a, b, i, st) ==
    IF Known(st) /\ i = 0 THEN st
    ELSE LongDiv(a, b, i - 1, DivStep(Limb(a, i), b, st))

\* floor(a / b): both are scaled first so that the leading limb of b is at
\* least Base / 2 and the bounds of a quotient limb are close
NatDivScaled(a, b) == Trim(LongDiv(a, b, Len(a), [q |-> <<>>, r |-> <<>>]).q)
NatDiv(a, b) ==
    NatDivScaled(NatMulSmall(a, Base \div (Limb(b, Len(b)) + 1)),
                 NatMulSmall(b, Base \div (Limb(b, Len(b)) + 1)))

\* one step of Newton's iteration for floor(sqrt(a)) from x >= floor(sqrt(a)),
\* which stays at x once x is the root
NatSqrtMin(x, y) == IF NatCmp(y, x) >= 0 THEN x ELSE y
NatSqrtStep(a, x) == NatSqrtMin(x, NatDivSmall(NatAdd(x, NatDiv(a, x)), 2))

\* a guess above sqrt(a) by less than 2%: the root of the two leading limbs of a,
\* rounded up, over 100 when an odd number of limbs is left below them
NatSqrtGuess(a) ==
    IF Len(a) = 1 THEN NatOf(Sqrt(Limb(a, 1)) + 1)
    ELSE IF Len(a) % 2 = 0
    THEN SubSeq(<<0, 0, 0, 0, 0>>, 1, Len(a) \div 2 - 1)
         \o NatOf(Sqrt(Limb(a, Len(a) - 1) + Base * Limb(a, Len(a))) + 1)
    ELSE NatAdd(NatDivSmall(SubSeq(<<0, 0, 0, 0, 0>>, 1, (Len(a) - 1) \div 2)
                            \o NatOf(Sqrt(Limb(a, Len(a) - 1) + Base * Limb(a, Len(a))) + 1), 100),
                <<1>>)

RECURSIVE NatSqrtFrom(_, _, _)
NatSqrtFrom(a, x, n) ==
    IF Known(x) /\ n = 0 THEN x ELSE NatSqrtFrom(a, NatSqrtStep(a, x), n - 1)

\* floor(sqrt(a)) for a of at most 10 limbs: every step doubles the digits
NatSqrt(a) == IF a = <<>> THEN <<>> ELSE NatSqrtFrom(a, NatSqrtGuess(a), 5)


\* Decimals: a sign and a magnitude in units of 10^-12 (Places limbs)
Places == 3

Dec(neg, mag) == [neg |-> neg /\ mag # <<>>, mag |-> mag]
DInt(n) == Dec(n < 0, NatShift(NatOf(Abs(n)), Places))
\* n / 10^9 and n / 10^3
DNano(n) == Dec(n < 0, NatMulSmall(NatOf(Abs(n)), 1000))
DMilli(n) == Dec(n < 0, NatMulSmall(NatShift(NatOf(Abs(n)), 2), 10))
DZero == [neg |-> FALSE, mag |-> <<>>]
DOne == [neg |-> FALSE, mag |-> <<0, 0, 0, 1>>]
DHalf == [neg |-> FALSE, mag |-> <<0, 0, 5000>>]
DNeg(a) == Dec(~a.neg, a.mag)
DAbs(a) == Dec(FALSE, a.mag)
DAddTo(a, b, cmp) ==
    IF a.neg = b.neg THEN Dec(a.neg, NatAdd(a.mag, b.mag))
    ELSE IF cmp >= 0 THEN Dec(a.neg, NatSub(a.mag, b.mag))
    ELSE Dec(b.neg, NatSub(b.mag, a.mag))
DAdd(a, b) == DAddTo(a, b, NatCmp(a.mag, b.mag))
DSub(a, b) == DAddTo(a, DNeg(b), NatCmp(a.mag, b.mag))
DMul(a, b) == Dec(a.neg # b.neg, NatDrop(NatMul(a.mag, b.mag), Places))
\* b # 0
DDiv(a, b) == Dec(a.neg # b.neg, NatDiv(NatShift(a.mag, Places), b.mag))
\* 0 <= k <= 200000, and 0 < k <= Base
DMulInt(a, k) == Dec(a.neg, NatMulSmall(a.mag, k))
DDivInt(a, k) == Dec(a.neg, NatDivSmall(a.mag, k))
DSqrt(a) == Dec(FALSE, NatSqrt(NatShift(a.mag, Places)))
\* -1, 0, 1 as a < b, a = b, a > b
DCmp(a, b) ==
    IF a.neg # b.neg THEN (IF a.neg THEN -1 ELSE 1)
    ELSE IF a.neg THEN NatCmp(b.mag, a.mag) ELSE NatCmp(a.mag, b.mag)

RECURSIVE ExpSeries(_, _, _, _)
\* sum + term + term x/(n+1) + term x^2/((n+1)(n+2)) + ...
ExpSeries(x, term, n, sum) ==
    IF Known(sum) /\ term.mag = <<>> THEN sum
    ELSE ExpSeries(x, DDivInt(DMul(term, x), n + 1), n + 1, DAdd(sum, term))

RECURSIVE Squared(_, _)
\* v ^ (2^k)
Squared(v, k) == IF Known(v) /\ k = 0 THEN v ELSE Squared(DMul(v, v), k - 1)

\* e^x for |x| <= 32: the series within 1/2 of 0, e^(x / 2^k) squared k times
\* outside
ExpHalved(x, k) == Squared(ExpSeries(DDivInt(x, 2^k), DOne, 0, DZero), k)
ExpOf(x) ==
    ExpHalved(x, CHOOSE k \in 0..6 :
                     /\ NatCmp(x.mag, DMilli(500 * 2^k).mag) <= 0
                     /\ k > 0 => NatCmp(x.mag, DMilli(250 * 2^k).mag) > 0)

\* Math.exp, 0 where it is below the last decimal
Exp(x) == IF DCmp(x, DInt(-28)) < 0 THEN DZero ELSE ExpOf(x)

RECURSIVE AtanhSeries(_, _, _, _)
\* sum + power/k + power zz/(k+2) + power zz^2/(k+4) + ...
AtanhSeries(zz, power, k, sum) ==
    IF Known(sum) /\ power.mag = <<>> THEN sum
    ELSE AtanhSeries(zz, DMul(power, zz), k + 2, DAdd(sum, DDivInt(power, k)))

\* Math.LN2
LN2 == [neg |-> FALSE, mag |-> <<560, 4718, 6931>>]

\* 2 atanh z
LnNear(z) == DMulInt(AtanhSeries(DMul(z, z), z, 1, DZero), 2)
\* ln x for x = y * 2^k, y between 0.7 and 1.4: 2 atanh((y-1)/(y+1)) + k ln 2
LnScaled(y, k) ==
    DAdd(LnNear(DDiv(DSub(y, DOne), DAdd(y, DOne))),
         IF k < 0 THEN DNeg(DMulInt(LN2, 0 - k)) ELSE DMulInt(LN2, k))

\* Math.log of x, 2^-13 < x < 2^13
Ln(x) ==
    IF DCmp(x, DMilli(1400)) > 0
    THEN LET k == CHOOSE k \in 1..13 :
                      /\ DCmp(x, DMilli(1400 * 2^k)) <= 0
                      /\ DCmp(x, DMilli(700 * 2^k)) > 0
         IN  LnScaled(DDivInt(x, 2^k), k)
    ELSE IF DCmp(x, DMilli(700)) < 0
    THEN LET k == CHOOSE k \in 1..13 :
                      /\ DCmp(DMulInt(x, 2^k), DMilli(700)) >= 0
                      /\ DCmp(DMulInt(x, 2^k), DMilli(1400)) < 0
         IN  LnScaled(DMulInt(x, 2^k), 0 - k)
    ELSE LnScaled(x, 0)

(***************************************************************************)
(* FinancialService.normCdf, normPdf, erf and bsm, on decimals.            *)
(***************************************************************************)
\* Math.sqrt(2) and 1 / Math.sqrt(2 * Math.PI)
SQRT2 == [neg |-> FALSE, mag |-> <<2373, 1356, 4142, 1>>]
INV_SQRT_2PI == [neg |-> FALSE, mag |-> <<401, 4228, 3989>>]

RECURSIVE Horner(_, _, _, _)
\* (..(acc t + coefs[i]) t + ..) t + coefs[1]
Horner(coefs, t, i, acc) ==
    IF Known(acc) /\ i = 0 THEN acc
    ELSE Horner(coefs, t, i - 1, DAdd(DMul(acc, t), At(coefs, i)))

\* sign * y of erf, from t, the polynomial times t, and Math.exp(-x * x)
erfY(sign, pt, e) ==
    CASE Known(pt) /\ Known(e) ->
        IF sign < 0 THEN DNeg(DSub(DOne, DMul(pt, e))) ELSE DSub(DOne, DMul(pt, e))
erfT(sign, x, t) ==
    CASE Known(t) ->
        erfY(sign,
             DMul(Horner(<<DNano(254829592), DNano(0 - 284496736), DNano(1421413741),
                           DNano(0 - 1453152027)>>, t, 4, DNano(1061405429)), t),
             Exp(DNeg(DMul(x, x))))
\* erf for x = |the argument|
erfOf(sign, x) == erfT(sign, x, DDiv(DOne, DAdd(DOne, DMul(DNano(327591100), x))))

erf(x) == erfOf(IF DCmp(x, DZero) >= 0 THEN 1 ELSE -1, DAbs(x))

normCdf(x) == DMul(DHalf, DAdd(DOne, erf(DDiv(x, SQRT2))))

normPdf(x) == DMul(INV_SQRT_2PI, Exp(DMul(DMul(DNeg(DHalf), x), x)))

\* Infinity, which no operation is applied to
Infinity == [neg |-> FALSE, mag |-> <<-1>>]

\* the fallback with delta 1 for a Call at the money
bsmFallback_DeltaAtTheMoney(S, K, optionType) ==
    [price |-> IF optionType = "Call"
               THEN (IF DCmp(S, K) > 0 THEN DSub(S, K) ELSE DZero)
               ELSE (IF DCmp(K, S) > 0 THEN DSub(K, S) ELSE DZero),
     greeks |-> [delta |-> IF optionType = "Call"
                           THEN (IF DCmp(S, K) >= 0 THEN DInt(1) ELSE DZero)
                           ELSE (IF DCmp(S, K) < 0 THEN DInt(-1) ELSE DZero),
                 gamma |-> DZero, vega |-> DZero, theta |-> DZero, rho |-> DZero],
     d1 |-> Infinity, d2 |-> Infinity]

\* the result when T <= 0 or sigma <= 0
bsmFallback(S, K, optionType) ==
    [price |-> IF optionType = "Call"
               THEN (IF DCmp(S, K) > 0 THEN DSub(S, K) ELSE DZero)
               ELSE (IF DCmp(K, S) > 0 THEN DSub(K, S) ELSE DZero),
     greeks |-> [delta |-> IF optionType = "Call"
                           THEN (IF DCmp(S, K) > 0 THEN DInt(1) ELSE DZero)
                           ELSE (IF DCmp(S, K) < 0 THEN DInt(-1) ELSE DZero),
                 gamma |-> DZero, vega |-> DZero, theta |-> DZero, rho |-> DZero],
     d1 |-> Infinity, d2 |-> Infinity]

\* the result for a Call, KE = K * Math.exp(-r * T) and decay the first term
\* of theta
bsmCall(S, K, T, sigma, r, sqrtT, d1, d2, N_d1, N_d2, N_prime_d1, KE, decay) ==
    CASE Known(N_d2) /\ Known(decay) ->
    [price |-> DSub(DMul(S, N_d1), DMul(KE, N_d2)),
     greeks |-> [delta |-> N_d1,
                 gamma |-> DDiv(N_prime_d1, DMul(DMul(S, sigma), sqrtT)),
                 vega |-> DMul(DMul(S, N_prime_d1), sqrtT),
                 theta |-> DSub(decay, DMul(DMul(r, KE), N_d2)),
                 rho |-> DMul(DMul(KE, T), N_d2)],
     d1 |-> d1, d2 |-> d2]

\* the result for a Put
bsmPut(S, K, T, sigma, r, sqrtT, d1, d2, N_d1, N_minus_d1, N_minus_d2, N_prime_d1, KE, decay) ==
    CASE Known(N_minus_d1) /\ Known(N_minus_d2) /\ Known(decay) ->
    [price |-> DSub(DMul(KE, N_minus_d2), DMul(S, N_minus_d1)),
     greeks |-> [delta |-> DSub(N_d1, DOne),
                 gamma |-> DDiv(N_prime_d1, DMul(DMul(S, sigma), sqrtT)),
                 vega |-> DMul(DMul(S, N_prime_d1), sqrtT),
                 theta |-> DAdd(decay, DMul(DMul(r, KE), N_minus_d2)),
                 rho |-> DNeg(DMul(DMul(KE, T), N_minus_d2))],
     d1 |-> d1, d2 |-> d2]

\* from d1 and d2 on
bsmAtD2(S, K, T, sigma, r, optionType, sqrtT, d1, d2, N_d1, N_prime_d1, KE) ==
    CASE Known(d2) /\ Known(N_d1) /\ Known(N_prime_d1) /\ Known(KE) ->
        IF optionType = "Call"
        THEN bsmCall(S, K, T, sigma, r, sqrtT, d1, d2, N_d1, normCdf(d2), N_prime_d1, KE,
                     DDiv(DNeg(DMul(DMul(S, N_prime_d1), sigma)), DMulInt(sqrtT, 2)))
        ELSE bsmPut(S, K, T, sigma, r, sqrtT, d1, d2, N_d1, normCdf(DNeg(d1)),
                    normCdf(DNeg(d2)), N_prime_d1, KE,
                    DDiv(DNeg(DMul(DMul(S, N_prime_d1), sigma)), DMulInt(sqrtT, 2)))
bsmAtD1(S, K, T, sigma, r, optionType, sqrtT, d1) ==
    CASE Known(d1) ->
        bsmAtD2(S, K, T, sigma, r, optionType, sqrtT, d1, DSub(d1, DMul(sigma, sqrtT)),
                normCdf(d1), normPdf(d1), DMul(K, Exp(DMul(DNeg(r), T))))
bsmAtSqrtT(S, K, T, sigma, r, optionType, sqrtT) ==
    CASE Known(sqrtT) ->
        bsmAtD1(S, K, T, sigma, r, optionType, sqrtT,
                DDiv(DAdd(Ln(DDiv(S, K)), DMul(DAdd(r, DMul(DMul(DHalf, sigma), sigma)), T)),
                     DMul(sigma, sqrtT)))

\* the result when T > 0 and sigma > 0
bsmAnalytic(S, K, T, sigma, r, optionType) ==
    bsmAtSqrtT(S, K, T, sigma, r, optionType, DSqrt(T))

\* the result of bsm(S, K, T, sigma, r, optionType) for decimals
bsmResult(S, K, T, sigma, r, optionType) ==
    IF DCmp(T, DZero) <= 0 \/ DCmp(sigma, DZero) <= 0
    THEN bsmFallback(S, K, optionType)
    ELSE bsmAnalytic(S, K, T, sigma, r, optionType)


(***************************************************************************)
(* FinancialService.bsm called on its own, for both option types, on       *)
(* bounded arguments: T = days / 252, sigma and r in thousandths.          *)
(***************************************************************************)
BsmSpots == {90, 100, 2000}

BsmStrikes == {100, 2000}

BsmDays == {-5, 0, 30, 252}

BsmSigmas == {-100, 0, 250, 500}

BsmRates == {-125, 0, 125}

\* bsm(S, K, T, sigma, r, Call) and bsm(S, K, T, sigma, r, Put), from the
\* state in which no call was made
CallBsm(S, K, T, sigma, r) ==
    /\ call = <<>>
    /\ call' = <<[fn |-> "bsm", S |-> S, K |-> K, T |-> T, sigma |-> sigma, r |-> r]>>
    /\ returned' = [optionType \in Range(OptionTypes) |->
                       bsmResult(S, K, T, sigma, r, optionType)]
    /\ UNCHANGED <<dashboardVars, proxyVars>>

BsmNext ==
    \E S \in BsmSpots, K \in BsmStrikes, days \in BsmDays, sigma \in BsmSigmas,
       r \in BsmRates :
        CallBsm(DInt(S), DInt(K), DDivInt(DInt(days), 252), DMilli(sigma), DMilli(r))

BsmSpec == Init /\ [][BsmNext]_vars

(***************************************************************************)
(* The option objects with their numbers, and the FinancialService         *)
(* functions that read them: calculatePortfolioGreeks,                     *)
(* calculatePortfolioValue, calculateGammaHedge.                           *)
(***************************************************************************)
\* the numbers { price, greeks, d1, d2 } of the call b, which holds maturity
\* in days, sigma in thousandths and the rate in percent
bsmValue(b) ==
    bsmResult(DInt(b.S), DInt(b.K), DDivInt(DInt(b.maturity), 252), DMilli(b.sigma),
              DDivInt(DInt(b.r), 100), b.optionType)

\* chain[maturity].push({ id, strike, maturity, type, bsmPrice: price, iv,
\* greeks, d1, d2, bsmPriceHistVol, greeksHistVol }), iv in thousandths
OptionObject(option, values) ==
    CASE Known(values) ->
        [id |-> option.id, strike |-> option.strike, maturity |-> option.maturity,
         type |-> option.type, iv |-> option.iv,
         bsmPrice |-> values.bsm.price, greeks |-> values.bsm.greeks,
         d1 |-> values.bsm.d1, d2 |-> values.bsm.d2,
         bsmPriceHistVol |-> values.bsmHistVol.price,
         greeksHistVol |-> values.bsmHistVol.greeks]

\* the option with the numbers of its two bsm calls
Valued(option) ==
    OptionObject(option, [of \in {"bsm", "bsmHistVol"} |-> bsmValue(option[of])])

\* a row or a chain of such options
ValuedRow(row) == [k \in 1..Len(row) |-> Valued(At(row, k))]

ValuedChain(chain) ==
    CASE Known(chain) -> [maturity \in DOMAIN chain |-> ValuedRow(chain[maturity])]

GreekNames == {"delta", "gamma", "vega", "theta", "rho"}

\* the reducer of calculatePortfolioGreeks, on the IV-based greeks
AddGreeks(acc, pos) ==
    [g \in GreekNames |-> DAdd(acc[g], DMul(DInt(pos.quantity), pos.option.greeks[g]))]

\* the reducer on the HistVol greeks
AddGreeks_HistVol(acc, pos) ==
    [g \in GreekNames |-> DAdd(acc[g], DMul(DInt(pos.quantity), pos.option.greeksHistVol[g]))]

RECURSIVE GreeksFrom(_, _, _)
\* portfolio.reduce(..) from position i on
GreeksFrom(positions, i, acc) ==
    IF Known(acc) /\ i > Len(positions) THEN acc
    ELSE GreeksFrom(positions, i + 1, AddGreeks(acc, At(positions, i)))

RECURSIVE GreeksFrom_HistVol(_, _, _)
GreeksFrom_HistVol(positions, i, acc) ==
    IF Known(acc) /\ i > Len(positions) THEN acc
    ELSE GreeksFrom_HistVol(positions, i + 1, AddGreeks_HistVol(acc, At(positions, i)))

\* calculatePortfolioGreeks reading greeksHistVol
calculatePortfolioGreeks_HistVol(positions) ==
    GreeksFrom_HistVol(positions, 1, [g \in GreekNames |-> DZero])

calculatePortfolioGreeks(positions) ==
    GreeksFrom(positions, 1, [g \in GreekNames |-> DZero])

RECURSIVE ValueFrom(_, _, _, _)
\* portfolio.reduce((totalValue, position) => totalValue +
\* position.quantity * position.option.bsmPrice * lotSize, 0) from position i on
ValueFrom(positions, lotSize, i, totalValue) ==
    IF Known(totalValue) /\ i > Len(positions) THEN totalValue
    ELSE ValueFrom(positions, lotSize, i + 1,
                   DAdd(totalValue,
                        DMul(DMul(DInt(At(positions, i).quantity),
                                  At(positions, i).option.bsmPrice),
                             DInt(lotSize))))

calculatePortfolioValue(positions, lotSize) == ValueFrom(positions, lotSize, 1, DZero)

\* |a.greeks.gamma| - |b.greeks.gamma| <= 0
GammaNotAbove(a, b) == NatCmp(a.greeks.gamma.mag, b.greeks.gamma.mag) <= 0

RECURSIVE SortByGamma(_)
\* options.sort((a, b) => Math.abs(a.greeks.gamma) - Math.abs(b.greeks.gamma)):
\* ascending, and stable: equal options keep their order
SortByGamma(options) ==
    IF Len(options) <= 1 THEN options
    ELSE LET front == SortByGamma(SubSeq(options, 1, Len(options) - 1))
             last == options[Len(options)]
             before == SelectSeq(front, LAMBDA o : GammaNotAbove(o, last))
             after == SelectSeq(front, LAMBDA o : ~GammaNotAbove(o, last))
         IN  before \o <<last>> \o after

\* Math.round: to the nearest integer, a half towards +Infinity
DRound(a) ==
    LET shifted == DAdd(a, DHalf)
        whole == NatDrop(shifted.mag, Places)
    IN  IF shifted.neg /\ NatShift(whole, Places) # shifted.mag
        THEN Dec(TRUE, NatShift(NatAdd(whole, <<1>>), Places))
        ELSE Dec(shifted.neg, NatShift(whole, Places))

\* the suggestion with Math.trunc(quantity) for its lots
Suggestion_TruncatedLots(gamma, atmOption) ==
    LET quantity == DDiv(DNeg(gamma), atmOption.greeks.gamma)
        action == IF DCmp(quantity, DZero) > 0 THEN "Buy" ELSE "Sell"
        lots == Dec(FALSE, NatShift(NatDrop(quantity.mag, Places), Places))
    IN  [action |-> action, quantity |-> lots, option |-> atmOption,
         message |-> <<action, lots, atmOption.strike, atmOption.type,
                       atmOption.maturity>>]

\* the suggestion with Math.round(quantity) for its lots, without Math.abs
Suggestion_SignedLots(gamma, atmOption) ==
    LET quantity == DDiv(DNeg(gamma), atmOption.greeks.gamma)
        action == IF DCmp(quantity, DZero) > 0 THEN "Buy" ELSE "Sell"
        lots == DRound(quantity)
    IN  [action |-> action, quantity |-> lots, option |-> atmOption,
         message |-> <<action, lots, atmOption.strike, atmOption.type,
                       atmOption.maturity>>]

\* the suggestion for the portfolio gamma and the option found; a quotient by
\* a zero gamma is +Infinity or -Infinity
Suggestion(gamma, atmOption) ==
    LET infinite == atmOption.greeks.gamma = DZero
        quantity == IF infinite THEN Infinity
                    ELSE DDiv(DNeg(gamma), atmOption.greeks.gamma)
        action == IF (IF infinite THEN gamma.neg ELSE DCmp(quantity, DZero) > 0)
                  THEN "Buy" ELSE "Sell"
        lots == IF infinite THEN Infinity ELSE DAbs(DRound(quantity))
    IN  [action |-> action, quantity |-> lots, option |-> atmOption,
         message |-> <<action, lots, atmOption.strike, atmOption.type,
                       atmOption.maturity>>]

\* from the options of the chain that pass the filter, sorted
HedgeWith(gamma, sorted) ==
    IF sorted = <<>> THEN <<>>
    ELSE <<Suggestion(gamma, sorted[Len(sorted)])>>

\* the hedge with the first of the largest gammas: a sort that is not stable
HedgeFrom_FirstOfEqual(gamma, allOptions) ==
    LET sorted == SortByGamma(SelectSeq(allOptions, LAMBDA o : o.maturity = 30))
    IN  IF sorted = <<>> THEN <<>>
        ELSE LET first == CHOOSE i \in 1..Len(sorted) :
                              /\ GammaNotAbove(sorted[Len(sorted)], sorted[i])
                              /\ \A j \in 1..(i - 1) :
                                     ~GammaNotAbove(sorted[Len(sorted)], sorted[j])
             IN  <<Suggestion(gamma, sorted[first])>>

\* allOptions.filter(o => o.maturity === 30).sort(..).pop() and the
\* suggestion; null without such an option
HedgeFrom(gamma, allOptions) ==
    HedgeWith(gamma, SortByGamma(SelectSeq(allOptions, LAMBDA o : o.maturity = 30)))

\* calculateGammaHedge without the test of the portfolio gamma
calculateGammaHedge_NoNeutralTest(positions, chain) ==
    IF positions = <<>> THEN <<>>
    ELSE HedgeFrom(calculatePortfolioGreeks(positions).gamma, AllOptions(chain))

calculateGammaHedge(positions, chain) ==
    IF positions = <<>> THEN <<>>
    ELSE LET portfolioGreeks == calculatePortfolioGreeks(positions)
         IN  IF NatCmp(portfolioGreeks.gamma.mag, DNano(1000).mag) < 0 THEN <<>>
             ELSE HedgeFrom(portfolioGreeks.gamma, AllOptions(chain))

(***************************************************************************)
(* The portfolio functions called on their own, on portfolios of at most   *)
(* two positions in options of chains that generateOptionChain builds.     *)
(***************************************************************************)
\* the chain of a stock at 10 with a volatility of 25% and one of 0, where
\* every greek but delta is 0
PricedChain == ValuedChain(generateOptionChain(10, 250, 7, <<>>))

FlatChain == ValuedChain(generateOptionChain(10, 0, 7, <<>>))

ValuedChains == {PricedChain, FlatChain}

\* the options a position may be in: both types at the money for 30 days, a
\* Call out of the money, and an option of each later maturity
HeldOptionIds == {"10-30-Call", "10-30-Put", "11-30-Call", "10-60-Put", "11-90-Call"}

HeldOptions(chain) == {o \in Range(AllOptions(chain)) : o.id \in HeldOptionIds}

HeldQuantities == {-2, -1, 1, 2}

Positions(chain) == {[option |-> o, quantity |-> q] : o \in HeldOptions(chain), q \in HeldQuantities}

\* no position, one, or two in different options
Portfolios(chain) ==
    {<<>>} \cup {<<p>> : p \in Positions(chain)}
    \cup {<<pq[1], pq[2]>> : pq \in {pq \in Positions(chain) \X Positions(chain) :
                                        pq[1].option.id # pq[2].option.id}}

LotSizes == {1, 50}

CallCalculatePortfolioGreeks(positions) ==
    /\ call = <<>>
    /\ call' = <<[fn |-> "calculatePortfolioGreeks", portfolio |-> positions]>>
    /\ returned' = calculatePortfolioGreeks(positions)
    /\ UNCHANGED <<dashboardVars, proxyVars>>

CallCalculatePortfolioValue(positions, lotSize) ==
    /\ call = <<>>
    /\ call' = <<[fn |-> "calculatePortfolioValue", portfolio |-> positions,
                  lotSize |-> lotSize]>>
    /\ returned' = calculatePortfolioValue(positions, lotSize)
    /\ UNCHANGED <<dashboardVars, proxyVars>>

CallCalculateGammaHedge(positions, chain) ==
    /\ call = <<>>
    /\ call' = <<[fn |-> "calculateGammaHedge", portfolio |-> positions,
                  optionChain |-> chain]>>
    /\ returned' = calculateGammaHedge(positions, chain)
    /\ UNCHANGED <<dashboardVars, proxyVars>>

PortfolioNext ==
    \E chain \in ValuedChains : \E positions \in Portfolios(chain) :
        \/ CallCalculatePortfolioGreeks(positions)
        \/ \E lotSize \in LotSizes : CallCalculatePortfolioValue(positions, lotSize)
        \/ CallCalculateGammaHedge(positions, chain)

PortfolioSpec == Init /\ [][PortfolioNext]_vars

(***************************************************************************)
(* calculateGammaHedge on chains whose gammas are in a ratio of whole      *)
(* numbers, where the quotient -portfolioGamma / option.gamma may be an    *)
(* exact half.                                                             *)
(***************************************************************************)
\* the gamma, in thousandths, of the options of each maturity
QuotedGamma == [maturity \in {30, 60, 90} |->
                   CASE maturity = 30 -> 40 [] maturity = 60 -> 20 [] OTHER -> 10]

\* the priced chain with the gammas of its options replaced
QuotedRow(row, maturity) ==
    CASE Known(row) ->
        [i \in 1..Len(row) |->
            [row[i] EXCEPT !.greeks.gamma = DMilli(QuotedGamma[maturity])]]

QuotedChain == [maturity \in DOMAIN PricedChain |->
                   QuotedRow(PricedChain[maturity], maturity)]

HedgedChains == {PricedChain, QuotedChain}

LotsNext ==
    \E chain \in HedgedChains : \E positions \in Portfolios(chain) :
        CallCalculateGammaHedge(positions, chain)

LotsSpec == Init /\ [][LotsNext]_vars

(***************************************************************************)
(* FinancialService.calculatePortfolioVaR.                                 *)
(***************************************************************************)
\* { parametric95: 0, parametric99: 0, historical95: 0, historical99: 0 }
ZeroVaR ==
    [parametric95 |-> DZero, parametric99 |-> DZero,
     historical95 |-> DZero, historical99 |-> DZero]

\* the price of the option of pos on a day the stock is at S_t:
\* this.bsm(S_t, strike, maturity / 252.0, iv, config.riskFreeRate / 100, type).price
PriceAt(pos, S_t, cfg) ==
    bsmResult(DInt(S_t), DInt(pos.option.strike),
              DDivInt(DInt(pos.option.maturity), 252), DMilli(pos.option.iv),
              DDivInt(DInt(cfg.riskFreeRate), 100), pos.option.type).price

\* pos.quantity as a decimal; that of the stock position of a hedged
\* portfolio is one already
QuantityOf(pos) ==
    IF pos.option.id = "STOCK_HEDGE" THEN pos.quantity ELSE DInt(pos.quantity)

RECURSIVE ValueAt(_, _, _, _, _)
\* portfolio.reduce((totalValue, pos) => totalValue + pos.quantity * price *
\* config.lotSize, 0) from position i on
ValueAt(positions, S_t, cfg, i, totalValue) ==
    IF Known(totalValue) /\ i > Len(positions) THEN totalValue
    ELSE ValueAt(positions, S_t, cfg, i + 1,
                 DAdd(totalValue,
                      DMul(DMul(QuantityOf(At(positions, i)),
                                PriceAt(At(positions, i), S_t, cfg)),
                           DInt(cfg.lotSize))))

RECURSIVE PvSeriesFrom(_, _, _, _, _)
\* stockPrices.map(S_t => ..) from day i on
PvSeriesFrom(positions, stockPrices, cfg, i, pvSeries) ==
    IF Known(pvSeries) /\ i > Len(stockPrices) THEN pvSeries
    ELSE PvSeriesFrom(positions, stockPrices, cfg, i + 1,
                      Append(pvSeries, ValueAt(positions, At(stockPrices, i), cfg, 1, DZero)))

RECURSIVE PvReturnsFrom(_, _, _)
\* pvSeries.slice(1).map((p, i) => (p - pvSeries[i]) / pvSeries[i])
\*     .filter(r => isFinite(r)) from day i on: the quotient by a previous
\* value of 0 is NaN or infinite and is dropped
PvReturnsFrom(pvSeries, i, pvReturns) ==
    IF Known(pvReturns) /\ i >= Len(pvSeries) THEN pvReturns
    ELSE PvReturnsFrom(pvSeries, i + 1,
                       IF At(pvSeries, i) = DZero THEN pvReturns
                       ELSE Append(pvReturns,
                                   DDiv(DSub(At(pvSeries, i + 1), At(pvSeries, i)),
                                        At(pvSeries, i))))

RECURSIVE SumFrom(_, _, _)
\* rs.reduce((s, r) => s + r, 0) from element i on
SumFrom(rs, i, s) ==
    IF Known(s) /\ i > Len(rs) THEN s
    ELSE SumFrom(rs, i + 1, DAdd(s, At(rs, i)))

RECURSIVE SquaresFrom(_, _, _, _)
\* rs.reduce((s, r) => s + Math.pow(r - returnsMean, 2), 0) from element i on
SquaresFrom(rs, returnsMean, i, s) ==
    IF Known(s) /\ i > Len(rs) THEN s
    ELSE SquaresFrom(rs, returnsMean, i + 1,
                     DAdd(s, DMul(DSub(At(rs, i), returnsMean),
                                  DSub(At(rs, i), returnsMean))))

RECURSIVE SortReturns_Descending(_)
\* pvReturns.sort((a, b) => b - a)
SortReturns_Descending(rs) ==
    IF Len(rs) <= 1 THEN rs
    ELSE LET front == SortReturns_Descending(SubSeq(rs, 1, Len(rs) - 1))
             last == rs[Len(rs)]
         IN  SelectSeq(front, LAMBDA r : DCmp(r, last) >= 0) \o <<last>>
                 \o SelectSeq(front, LAMBDA r : DCmp(r, last) < 0)

RECURSIVE SortReturns(_)
\* pvReturns.sort((a, b) => a - b)
SortReturns(rs) ==
    IF Len(rs) <= 1 THEN rs
    ELSE LET front == SortReturns(SubSeq(rs, 1, Len(rs) - 1))
             last == rs[Len(rs)]
         IN  SelectSeq(front, LAMBDA r : DCmp(r, last) <= 0) \o <<last>>
                 \o SelectSeq(front, LAMBDA r : DCmp(r, last) > 0)

\* -(returnsMean + this.normCdf(level) * returnsStd) * lastPortfolioValue
Parametric(returnsMean, returnsStd, level, lastPortfolioValue) ==
    DMul(DNeg(DAdd(returnsMean, DMul(normCdf(level), returnsStd))), lastPortfolioValue)

\* the lowest return at every level
Historical_Lowest(sorted, percent, lastPortfolioValue) ==
    DMul(DNeg(At(sorted, 1)), lastPortfolioValue)

\* -pvReturns[Math.floor(level * pvReturns.length)] * lastPortfolioValue, the
\* level in hundredths, on the sorted returns
Historical(sorted, percent, lastPortfolioValue) ==
    DMul(DNeg(At(sorted, 1 + (percent * Len(sorted)) \div 100)), lastPortfolioValue)

\* the four fields from two returns or more
VaRFromStd(pvReturns, lastPortfolioValue, returnsMean, returnsStd) ==
    [parametric95 |-> Parametric(returnsMean, returnsStd, DMilli(50), lastPortfolioValue),
     parametric99 |-> Parametric(returnsMean, returnsStd, DMilli(10), lastPortfolioValue),
     historical95 |-> Historical(SortReturns(pvReturns), 5, lastPortfolioValue),
     historical99 |-> Historical(SortReturns(pvReturns), 1, lastPortfolioValue)]

VaRFromMean(pvReturns, lastPortfolioValue, returnsMean) ==
    VaRFromStd(pvReturns, lastPortfolioValue, returnsMean,
               DSqrt(DDivInt(SquaresFrom(pvReturns, returnsMean, 1, DZero),
                             Len(pvReturns) - 1)))

VaRFrom(pvReturns, lastPortfolioValue) ==
    VaRFromMean(pvReturns, lastPortfolioValue,
                DDivInt(SumFrom(pvReturns, 1, DZero), Len(pvReturns)))

\* a number that is NaN
NotANumber == [neg |-> FALSE, mag |-> <<-2>>]

\* the function without its test of pvReturns.length: of no return every
\* field is NaN, of one the deviation is 0 / 0
VaROfSeries_NoReturnsTest(pvSeries, pvReturns) ==
    IF Len(pvReturns) >= 2 THEN VaRFrom(pvReturns, At(pvSeries, Len(pvSeries)))
    ELSE [parametric95 |-> NotANumber, parametric99 |-> NotANumber,
          historical95 |-> IF pvReturns = <<>> THEN NotANumber
                           ELSE DMul(DNeg(pvReturns[1]), At(pvSeries, Len(pvSeries))),
          historical99 |-> IF pvReturns = <<>> THEN NotANumber
                           ELSE DMul(DNeg(pvReturns[1]), At(pvSeries, Len(pvSeries)))]

\* if (pvReturns.length < 2) return zeros, and the four fields
VaROfSeries(pvSeries, pvReturns) ==
    IF Len(pvReturns) < 2 THEN ZeroVaR
    ELSE VaRFrom(pvReturns, At(pvSeries, Len(pvSeries)))

VaROfValues(pvSeries) == VaROfSeries(pvSeries, PvReturnsFrom(pvSeries, 1, <<>>))

calculatePortfolioVaR(positions, stockPrices, cfg) ==
    IF positions = <<>> \/ Len(stockPrices) < 2 THEN ZeroVaR
    ELSE VaROfValues(PvSeriesFrom(positions, stockPrices, cfg, 1, <<>>))

(***************************************************************************)
(* calculatePortfolioVaR called on its own.  The options without           *)
(* volatility are worth what exercising them pays, which is exactly 0 out  *)
(* of the money; the others are priced near the money, where no value is   *)
(* close to 0.                                                             *)
(***************************************************************************)
VaROptions ==
    {o \in Range(AllOptions(FlatChain)) : o.id \in {"10-30-Call", "10-30-Put"}}
    \cup {o \in Range(AllOptions(PricedChain)) : o.id \in {"10-30-Call"}}

VaRPositions == {[option |-> o, quantity |-> q] : o \in VaROptions, q \in {-1, 2}}

\* no position, one, or a Call and a Put without volatility
VaRPortfolios ==
    {<<>>} \cup {<<p>> : p \in VaRPositions}
    \cup {<<pq[1], pq[2]>> : pq \in {pq \in VaRPositions \X VaRPositions :
                                        /\ pq[1].option.iv = 0 /\ pq[2].option.iv = 0
                                        /\ pq[1].option.type = "Call"
                                        /\ pq[2].option.type = "Put"}}

StockPriceSeries ==
    { <<>>, <<11>>, <<10, 11>>, <<10, 11, 12>>, <<11, 12, 13>>, <<9, 8, 12>>,
      <<12, 11, 13, 12>>, <<8, 9, 12, 11>>, <<11, 11, 11>>, <<13, 12, 11>>,
      <<11, 12, 13, 11, 13, 14, 13, 12, 13, 14, 13, 12, 13, 14, 13, 12, 13, 14, 13, 12, 13>> }

VaRConfigs == {[InitialConfig EXCEPT !.lotSize = lotSize] : lotSize \in LotSizes}

CallCalculatePortfolioVaR(positions, stockPrices, cfg) ==
    /\ call = <<>>
    /\ call' = <<[fn |-> "calculatePortfolioVaR", portfolio |-> positions,
                  stockPrices |-> stockPrices, config |-> cfg]>>
    /\ returned' = calculatePortfolioVaR(positions, stockPrices, cfg)
    /\ UNCHANGED <<dashboardVars, proxyVars>>

VaRNext ==
    \E positions \in VaRPortfolios, stockPrices \in StockPriceSeries, cfg \in VaRConfigs :
        CallCalculatePortfolioVaR(positions, stockPrices, cfg)

VaRSpec == Init /\ [][VaRNext]_vars

(***************************************************************************)
(* FinancialService.hedgePortfolio and calculatePnLScenarios.              *)
(***************************************************************************)
\* { deltaHedgeShares: -greeks.delta * lotSize }
hedgePortfolio(positions, lotSize) ==
    [deltaHedgeShares |->
        DMul(DNeg(calculatePortfolioGreeks(positions).delta), DInt(lotSize))]

\* const scenarios = [-0.02, -0.01, 0.0, 0.01, 0.02], in hundredths
scenarios == <<-2, -1, 0, 1, 2>>

\* `${(change * 100).toFixed(0)}%`
ScenarioName(change) == ToString(change) \o "%"

RECURSIVE CurrentValueFrom(_, _, _)
\* portfolio.reduce((sum, pos) => sum + pos.quantity * pos.option.bsmPrice, 0)
\* from position i on
CurrentValueFrom(positions, i, sum) ==
    IF Known(sum) /\ i > Len(positions) THEN sum
    ELSE CurrentValueFrom(positions, i + 1,
                          DAdd(sum, DMul(DInt(At(positions, i).quantity),
                                         At(positions, i).option.bsmPrice)))

RECURSIVE NewValueFrom(_, _, _, _, _)
\* portfolio.reduce((sum, pos) => sum + pos.quantity *
\* this.bsm(newPrice, strike, T, iv, r, type).price, 0) from position i on
NewValueFrom(positions, newPrice, cfg, i, sum) ==
    IF Known(sum) /\ i > Len(positions) THEN sum
    ELSE NewValueFrom(positions, newPrice, cfg, i + 1,
                      DAdd(sum,
                           DMul(DInt(At(positions, i).quantity),
                                bsmResult(newPrice, DInt(At(positions, i).option.strike),
                                          DDivInt(DInt(At(positions, i).option.maturity), 252),
                                          DMilli(At(positions, i).option.iv),
                                          DDivInt(DInt(cfg.riskFreeRate), 100),
                                          At(positions, i).option.type).price)))

\* the scenario with the hedge of config.lotSize lots
ScenarioOf_HedgePerLotSize(change, lastPrice, newPrice, cfg, currentValue, hedge, pnlUnhedged) ==
    CASE Known(pnlUnhedged) ->
        [scenario |-> ScenarioName(change), pnlUnhedged |-> pnlUnhedged,
         pnlDeltaHedged |->
             DAdd(pnlUnhedged,
                  DMul(DMul(hedge.deltaHedgeShares, DInt(cfg.lotSize)),
                       DSub(newPrice, DInt(lastPrice))))]

\* hedgePnL, pnlDeltaHedged and the scenario returned
ScenarioOf(change, lastPrice, newPrice, cfg, currentValue, hedge, pnlUnhedged) ==
    CASE Known(pnlUnhedged) ->
        [scenario |-> ScenarioName(change), pnlUnhedged |-> pnlUnhedged,
         pnlDeltaHedged |->
             DAdd(pnlUnhedged,
                  DMul(hedge.deltaHedgeShares, DSub(newPrice, DInt(lastPrice))))]

\* newValue and pnlUnhedged = (newValue - currentValue) * config.lotSize
ScenarioAt(positions, change, lastPrice, newPrice, cfg, currentValue, hedge) ==
    CASE Known(newPrice) ->
        ScenarioOf(change, lastPrice, newPrice, cfg, currentValue, hedge,
                   DMul(DSub(NewValueFrom(positions, newPrice, cfg, 1, DZero), currentValue),
                        DInt(cfg.lotSize)))

\* the scenario of a change: newPrice = lastPrice * (1 + change)
Scenario(positions, change, lastPrice, cfg, currentValue, hedge) ==
    ScenarioAt(positions, change, lastPrice,
               DMul(DInt(lastPrice), DAdd(DOne, DDivInt(DInt(change), 100))),
               cfg, currentValue, hedge)

ScenariosWith(positions, lastPrice, cfg, currentValue, hedge) ==
    CASE Known(currentValue) /\ Known(hedge) ->
        [k \in 1..Len(scenarios) |->
            Scenario(positions, scenarios[k], lastPrice, cfg, currentValue, hedge)]

calculatePnLScenarios(positions, lastPrice, cfg) ==
    ScenariosWith(positions, lastPrice, cfg, CurrentValueFrom(positions, 1, DZero),
                  hedgePortfolio(positions, 1))

(***************************************************************************)
(* hedgePortfolio and calculatePnLScenarios called on their own.           *)
(***************************************************************************)
LastPrices == {8, 9, 10, 11, 12}

CallHedgePortfolio(positions, lotSize) ==
    /\ call = <<>>
    /\ call' = <<[fn |-> "hedgePortfolio", portfolio |-> positions, lotSize |-> lotSize]>>
    /\ returned' = hedgePortfolio(positions, lotSize)
    /\ UNCHANGED <<dashboardVars, proxyVars>>

CallCalculatePnLScenarios(positions, lastPrice, cfg) ==
    /\ call = <<>>
    /\ call' = <<[fn |-> "calculatePnLScenarios", portfolio |-> positions,
                  lastPrice |-> lastPrice, config |-> cfg]>>
    /\ returned' = calculatePnLScenarios(positions, lastPrice, cfg)
    /\ UNCHANGED <<dashboardVars, proxyVars>>

ScenarioNext ==
    \E positions \in VaRPortfolios :
        \/ \E lotSize \in LotSizes : CallHedgePortfolio(positions, lotSize)
        \/ \E lastPrice \in LastPrices, cfg \in VaRConfigs :
               CallCalculatePnLScenarios(positions, lastPrice, cfg)

ScenarioSpec == Init /\ [][ScenarioNext]_vars

(***************************************************************************)
(* The arrays of a call.  A JavaScript array is an object: map, filter,    *)
(* flat, slice, Object.values and the spread make a new array, sort and    *)
(* pop change the array they are called on.  heap[ref] holds the elements  *)
(* of the array ref; the arrays passed to a function come first, and what  *)
(* the caller sees after the call are those entries.  No function of       *)
(* FinancialService assigns to a property of an object it is passed.       *)
(***************************************************************************)
\* a new array of these elements; its reference is Len(heap) + 1
NewArray(heap, elements) == Append(heap, elements)

\* ref.sort(..) leaving the elements in the order `sorted`
SortInPlace(heap, ref, sorted) == [heap EXCEPT ![ref] = sorted]

\* ref.pop()
PopInPlace(heap, ref) ==
    IF At(heap, ref) = <<>> THEN heap
    ELSE [heap EXCEPT ![ref] = SubSeq(At(heap, ref), 1, Len(At(heap, ref)) - 1)]

\* the arrays of the arguments portfolio and optionChain: 1 the portfolio,
\* 2 to 4 optionChain[30], [60], [90]
ChainHeap(positions, chain) ==
    <<positions>> \o [k \in 1..Len(maturities) |-> chain[maturities[k]]]

\* calculateGammaHedge with optionChain[30].sort(..).pop()
GammaHedgeArrays_OnChainRow(positions, chain) ==
    IF positions = <<>> THEN ChainHeap(positions, chain)
    ELSE IF NatCmp(calculatePortfolioGreeks(positions).gamma.mag, DNano(1000).mag) < 0
    THEN ChainHeap(positions, chain)
    ELSE PopInPlace(SortInPlace(ChainHeap(positions, chain), 2, SortByGamma(chain[30])), 2)

\* calculateGammaHedge: allOptions = Object.values(optionChain).flat() is array
\* 5, allOptions.filter(..) array 6, which .sort(..) and .pop() change
GammaHedgeArrays(positions, chain) ==
    IF positions = <<>> THEN ChainHeap(positions, chain)
    ELSE IF NatCmp(calculatePortfolioGreeks(positions).gamma.mag, DNano(1000).mag) < 0
    THEN ChainHeap(positions, chain)
    ELSE LET allOptions == NewArray(ChainHeap(positions, chain), AllOptions(chain))
             filtered == NewArray(allOptions,
                                  SelectSeq(At(allOptions, 5), LAMBDA o : o.maturity = 30))
         IN  PopInPlace(SortInPlace(filtered, 6, SortByGamma(At(filtered, 6))), 6)

\* calculatePortfolioVaR: 1 the portfolio, 2 stockPrices; pvSeries is array
\* 3 (map), pvSeries.slice(1) array 4, its map array 5, pvReturns (filter)
\* array 6, which pvReturns.sort(..) changes
VaRArraysOf(positions, stockPrices, pvSeries, pvReturns) ==
    CASE Known(pvSeries) /\ Known(pvReturns) ->
        SortInPlace(NewArray(NewArray(NewArray(NewArray(<<positions, stockPrices>>,
                                                        pvSeries),
                                               Tail(pvSeries)),
                                      [i \in 1..(Len(pvSeries) - 1) |-> i]),
                             pvReturns),
                    6, SortReturns(pvReturns))

VaRArraysFrom(positions, stockPrices, pvSeries) ==
    CASE Known(pvSeries) ->
        IF Len(PvReturnsFrom(pvSeries, 1, <<>>)) < 2
        THEN NewArray(NewArray(NewArray(NewArray(<<positions, stockPrices>>, pvSeries),
                                        Tail(pvSeries)),
                               [i \in 1..(Len(pvSeries) - 1) |-> i]),
                      PvReturnsFrom(pvSeries, 1, <<>>))
        ELSE VaRArraysOf(positions, stockPrices, pvSeries, PvReturnsFrom(pvSeries, 1, <<>>))

VaRArrays(positions, stockPrices, cfg) ==
    IF positions = <<>> \/ Len(stockPrices) < 2 THEN <<positions, stockPrices>>
    ELSE VaRArraysFrom(positions, stockPrices,
                       PvSeriesFrom(positions, stockPrices, cfg, 1, <<>>))

\* generateOptionChain: 1 existingStrikes; generatedStrikes is array 2, the
\* spread of both array 3, the spread of the Set array 4, which .sort(..)
\* changes; the rows of the chain are new arrays
ChainArrays(currentPrice, existingStrikes) ==
    LET generated == NewArray(<<existingStrikes>>, generatedStrikes(currentPrice))
        both == NewArray(generated, At(generated, 2) \o existingStrikes)
        unique == NewArray(both, Dedup(At(both, 3)))
    IN  SortInPlace(unique, 4, SortAsc(At(unique, 4)))

\* calculatePortfolioGreeks, calculatePortfolioValue, hedgePortfolio and
\* calculatePnLScenarios call reduce and map only: 1 the portfolio
ReducedArrays(positions) == <<positions>>

(***************************************************************************)
(* The functions called and their arguments looked at after the call:      *)
(* `returned` holds the value and the arguments as the call left them.     *)
(***************************************************************************)
\* the options of the portfolios: without volatility, so that the prices
\* of calculatePortfolioVaR and calculatePnLScenarios are those of exercise
FrameOptions == {o \in Range(AllOptions(FlatChain)) : o.id \in {"10-30-Call", "10-60-Put"}}

FramePositions == {[option |-> o, quantity |-> q] : o \in FrameOptions, q \in {-1, 2}}

FramePortfolios ==
    {<<>>} \cup {<<p>> : p \in FramePositions}
    \cup {<<pq[1], pq[2]>> : pq \in {pq \in FramePositions \X FramePositions :
                                        pq[1].option.id # pq[2].option.id}}

FramePrices == { <<11>>, <<12, 11, 13, 12>>, <<13, 12, 11>> }

FrameStrikes == { <<>>, <<12, 9>>, <<10, 8, 10>> }

ChainOf(heap) ==
    CASE Known(heap) ->
        [m \in Range(maturities) |->
            heap[1 + CHOOSE k \in 1..Len(maturities) : maturities[k] = m]]

LookCalculatePortfolioGreeks(positions) ==
    /\ call = <<>>
    /\ call' = <<[fn |-> "calculatePortfolioGreeks", portfolio |-> positions]>>
    /\ returned' = [value |-> calculatePortfolioGreeks(positions),
                    portfolio |-> At(ReducedArrays(positions), 1)]
    /\ UNCHANGED <<dashboardVars, proxyVars>>

LookCalculatePortfolioValue(positions, lotSize) ==
    /\ call = <<>>
    /\ call' = <<[fn |-> "calculatePortfolioValue", portfolio |-> positions,
                  lotSize |-> lotSize]>>
    /\ returned' = [value |-> calculatePortfolioValue(positions, lotSize),
                    portfolio |-> At(ReducedArrays(positions), 1)]
    /\ UNCHANGED <<dashboardVars, proxyVars>>

LookHedgePortfolio(positions, lotSize) ==
    /\ call = <<>>
    /\ call' = <<[fn |-> "hedgePortfolio", portfolio |-> positions, lotSize |-> lotSize]>>
    /\ returned' = [value |-> hedgePortfolio(positions, lotSize),
                    portfolio |-> At(ReducedArrays(positions), 1)]
    /\ UNCHANGED <<dashboardVars, proxyVars>>

LookCalculatePnLScenarios(positions, lastPrice, cfg) ==
    /\ call = <<>>
    /\ call' = <<[fn |-> "calculatePnLScenarios", portfolio |-> positions,
                  lastPrice |-> lastPrice, config |-> cfg]>>
    /\ returned' = [value |-> calculatePnLScenarios(positions, lastPrice, cfg),
                    portfolio |-> At(ReducedArrays(positions), 1), config |-> cfg]
    /\ UNCHANGED <<dashboardVars, proxyVars>>

LookCalculatePortfolioVaR(positions, stockPrices, cfg) ==
    /\ call = <<>>
    /\ call' = <<[fn |-> "calculatePortfolioVaR", portfolio |-> positions,
                  stockPrices |-> stockPrices, config |-> cfg]>>
    /\ returned' = [value |-> calculatePortfolioVaR(positions, stockPrices, cfg),
                    portfolio |-> At(VaRArrays(positions, stockPrices, cfg), 1),
                    stockPrices |-> At(VaRArrays(positions, stockPrices, cfg), 2),
                    config |-> cfg]
    /\ UNCHANGED <<dashboardVars, proxyVars>>

LookCalculateGammaHedge(positions, chain) ==
    /\ call = <<>>
    /\ call' = <<[fn |-> "calculateGammaHedge", portfolio |-> positions,
                  optionChain |-> chain]>>
    /\ returned' = [value |-> calculateGammaHedge(positions, chain),
                    portfolio |-> At(GammaHedgeArrays(positions, chain), 1),
                    optionChain |-> ChainOf(GammaHedgeArrays(positions, chain))]
    /\ UNCHANGED <<dashboardVars, proxyVars>>

LookGenerateOptionChain(currentPrice, histVolatility, riskFreeRate, existingStrikes) ==
    /\ call = <<>>
    /\ call' = <<[fn |-> "generateOptionChain", currentPrice |-> currentPrice,
                  histVolatility |-> histVolatility, riskFreeRate |-> riskFreeRate,
                  existingStrikes |-> existingStrikes]>>
    /\ returned' = [value |-> generateOptionChain(currentPrice, histVolatility,
                                                  riskFreeRate, existingStrikes),
                    existingStrikes |-> At(ChainArrays(currentPrice, existingStrikes), 1)]
    /\ UNCHANGED <<dashboardVars, proxyVars>>

FrameNext ==
    \/ \E positions \in FramePortfolios :
           \/ LookCalculatePortfolioGreeks(positions)
           \/ \E lotSize \in LotSizes :
                  \/ LookCalculatePortfolioValue(positions, lotSize)
                  \/ LookHedgePortfolio(positions, lotSize)
           \/ \E lastPrice \in {9, 11}, cfg \in VaRConfigs :
                  LookCalculatePnLScenarios(positions, lastPrice, cfg)
           \/ \E stockPrices \in FramePrices, cfg \in VaRConfigs :
                  LookCalculatePortfolioVaR(positions, stockPrices, cfg)
    \/ \E positions \in Portfolios(PricedChain) :
           Len(positions) <= 1 /\ LookCalculateGammaHedge(positions, PricedChain)
    \/ \E currentPrice \in SpotPrices, existingStrikes \in FrameStrikes :
           LookGenerateOptionChain(currentPrice, 250, 7, existingStrikes)

FrameSpec == Init /\ [][FrameNext]_vars

(***************************************************************************)
(* The delta-hedged portfolio of PortfolioAnalysis (useMemo) and of        *)
(* FinancialService.exportDataToCSV, and the values both compute.          *)
(***************************************************************************)
\* { quantity: deltaHedgeShares, option: { id: 'STOCK_HEDGE', strike: 0,
\* maturity: 0, type: OptionType.Call, bsmPrice: stockData.lastPrice, iv: 0,
\* d1: 0, d2: 0, greeks: { delta: 1, .. }, bsmPriceHistVol, greeksHistVol } }
HedgePosition(deltaHedgeShares, lastPrice, priceHistVol, deltaHistVol) ==
    [quantity |-> deltaHedgeShares,
     option |-> [id |-> "STOCK_HEDGE", strike |-> 0, maturity |-> 0, type |-> "Call",
                 bsmPrice |-> DInt(lastPrice), iv |-> 0, d1 |-> DZero, d2 |-> DZero,
                 greeks |-> [g \in GreekNames |-> IF g = "delta" THEN DOne ELSE DZero],
                 bsmPriceHistVol |-> DInt(priceHistVol),
                 greeksHistVol |-> [g \in GreekNames |->
                                       IF g = "delta" THEN DInt(deltaHistVol) ELSE DZero]]]

\* [...portfolio, hedgePosition] of PortfolioAnalysis
HedgedPortfolio(positions, d, cfg) ==
    Append(positions,
           HedgePosition(hedgePortfolio(positions, cfg.lotSize).deltaHedgeShares,
                         d.lastPrice, d.lastPrice, 1))

\* [...portfolio, hedgePosition] of exportDataToCSV
ExportedHedgedPortfolio(positions, d, cfg) ==
    Append(positions,
           HedgePosition(hedgePortfolio(positions, cfg.lotSize).deltaHedgeShares,
                         d.lastPrice, 0, 0))

\* the value of the useMemo of PortfolioAnalysis
PortfolioAnalysisMemo(positions, d, cfg) ==
    IF Len(positions) = 0
    THEN [portfolioGreeks |-> <<>>, unhedgedVaR |-> <<>>, hedgedVaR |-> <<>>,
          deltaHedgeShares |-> DZero, portfolioValue |-> DZero]
    ELSE [portfolioGreeks |-> <<calculatePortfolioGreeks(positions)>>,
          unhedgedVaR |-> <<calculatePortfolioVaR(positions, Prices(d.historicalData), cfg)>>,
          hedgedVaR |-> <<calculatePortfolioVaR(HedgedPortfolio(positions, d, cfg),
                                                Prices(d.historicalData),
                                                [cfg EXCEPT !.lotSize = 1])>>,
          deltaHedgeShares |-> hedgePortfolio(positions, cfg.lotSize).deltaHedgeShares,
          portfolioValue |-> calculatePortfolioValue(positions, cfg.lotSize)]

\* the values exportDataToCSV writes in its portfolio sections; none for an
\* empty portfolio
ExportedPortfolioValues(positions, d, cfg) ==
    IF Len(positions) > 0
    THEN <<[pnlScenarios |-> calculatePnLScenarios(positions, d.lastPrice, cfg),
            unhedgedVaR |-> calculatePortfolioVaR(positions, Prices(d.historicalData), cfg),
            hedgedVaR |-> calculatePortfolioVaR(ExportedHedgedPortfolio(positions, d, cfg),
                                                Prices(d.historicalData),
                                                [cfg EXCEPT !.lotSize = 1])]>>
    ELSE <<>>

(***************************************************************************)
(* PortfolioAnalysis rendered and the export made, on their own.           *)
(***************************************************************************)
StockDataOf(prices) ==
    [ticker |-> SelectedStock, lastPrice |-> prices[Len(prices)],
     historicalData |-> [i \in 1..Len(prices) |-> [date |-> Today - Len(prices) + i,
                                                    price |-> prices[i]]]]

HedgedStockData == {StockDataOf(prices) : prices \in {<<11>>, <<10, 11, 12>>, <<12, 11, 13, 12>>}}

RenderPortfolioAnalysis(positions, d, cfg) ==
    /\ call = <<>>
    /\ call' = <<[fn |-> "PortfolioAnalysis", portfolio |-> positions, stockData |-> d,
                  config |-> cfg]>>
    /\ returned' = PortfolioAnalysisMemo(positions, d, cfg)
    /\ UNCHANGED <<dashboardVars, proxyVars>>

CallExportDataToCSV(positions, d, cfg) ==
    /\ call = <<>>
    /\ call' = <<[fn |-> "exportDataToCSV", portfolio |-> positions, stockData |-> d,
                  config |-> cfg]>>
    /\ returned' = ExportedPortfolioValues(positions, d, cfg)
    /\ UNCHANGED <<dashboardVars, proxyVars>>

HedgedNext ==
    \E positions \in VaRPortfolios, d \in HedgedStockData, cfg \in VaRConfigs :
        \/ RenderPortfolioAnalysis(positions, d, cfg)
        \/ CallExportDataToCSV(positions, d, cfg)

HedgedSpec == Init /\ [][HedgedNext]_vars

(***************************************************************************)
(* api/yahoo.ts: the proxy to the provider, in its two versions.  A handler *)
(* call runs from one await to the next in one step; between two steps of  *)
(* a call the steps of the other calls may run.  A nullable string is <<>>  *)
(* or <<v>>; a crumb or a cookie is kept as the request whose call of       *)
(* getCrumbAndCookie fetched it.                                            *)
(***************************************************************************)
\* const urls = ['https://finance.yahoo.com', 'https://fc.yahoo.com']
urls == <<"finance.yahoo.com", "fc.yahoo.com">>

\* req.method and req.query.  A query parameter is missing (<<>>), a string
\* (<<v>>) or, where it is given twice, an array.
Query(method, ticker, type, startDate, endDate) ==
    [method |-> method, ticker |-> ticker, type |-> type,
     startDate |-> startDate, endDate |-> endDate]

Queries ==
    { Query("OPTIONS", <<>>, <<>>, <<>>, <<>>),
      Query("GET", <<>>, <<>>, <<"2024-01-02">>, <<"2024-03-01">>),
      Query("GET", <<"LT", "TCS">>, <<>>, <<"2024-01-02">>, <<"2024-03-01">>),
      Query("GET", <<"LT">>, <<"options">>, <<>>, <<>>),
      Query("GET", <<"LT">>, <<>>, <<"2024-01-02">>, <<"2024-03-01">>),
      Query("GET", <<"LT">>, <<>>, <<>>, <<"2024-03-01">>),
      Query("GET", <<"LT">>, <<>>, <<"2024-01-02">>, <<"soon">>) }

\* !v || typeof v !== 'string'
NotAString(v) == Len(v) # 1 \/ v[1] = ""

\* Math.floor(new Date(text).getTime() / 1000): NaN for a text that is no date
Period(text) ==
    CASE text = "2024-01-02" -> 19724 * DaySeconds
      [] text = "2024-03-01" -> 19783 * DaySeconds
      [] OTHER -> NaN

\* a handler call at its start
NewRequest(version, query) ==
    [pc |-> "called", version |-> version, query |-> query,
     cookie |-> <<>>, crumb |-> <<>>, url |-> 0, status |-> 0,
     responses |-> <<>>, outbound |-> <<>>]

\* res.status(status).json(..) or .end(), and the return that follows
Respond(req, status) ==
    [req EXCEPT !.pc = "done", !.responses = Append(@, status),
                !.cookie = <<>>, !.crumb = <<>>, !.url = 0, !.status = 0]

\* fetch(target) issued, and awaited at the position given
Fetch(req, target, awaited) ==
    [req EXCEPT !.pc = awaited, !.outbound = Append(@, target)]

\* getCrumbAndCookie returns { crumb, cookie } to its awaiting handler
Return(req, crumb, cookie) ==
    [req EXCEPT !.pc = "authed", !.crumb = crumb, !.cookie = cookie, !.url = 0]

\* the steps of the proxy leave the dashboard and the service calls alone
ProxyStep(r, req, crumb, cookie) ==
    /\ requests' = [requests EXCEPT ![r] = req]
    /\ cachedCrumb' = crumb
    /\ cachedCookie' = cookie
    /\ UNCHANGED <<dashboardVars, call, returned>>

\* the requests arrive in the order of their numbers
Arrives(r) ==
    /\ requests[r].pc = "none"
    /\ r > 1 => requests[r - 1].pc # "none"

\* the authenticating handler from its start to its first await: the
\* preflight, the test of ticker, and getCrumbAndCookie up to its return
\* from the cache or to its first fetch
HandlerCalled(r, query) ==
    /\ Arrives(r)
    /\ LET req == NewRequest("authenticating", query)
       IN  ProxyStep(r,
               IF query.method = "OPTIONS" THEN Respond(req, 200)
               ELSE IF NotAString(query.ticker) THEN Respond(req, 400)
               ELSE IF cachedCrumb # <<>> /\ cachedCookie # <<>>
               THEN Return(req, cachedCrumb, cachedCookie)
               ELSE Fetch([req EXCEPT !.url = 1], urls[1], "cookie"),
               cachedCrumb, cachedCookie)

\* fetch(url) of the loop settles: cookie = response.headers.get('set-cookie')
\* or the catch of the loop; then the next url, the return without a
\* cookie, or the fetch of the crumb
CookieFetchSettles(r, outcome) ==
    /\ requests[r].pc = "cookie"
    /\ LET req == requests[r]
       IN  ProxyStep(r,
               IF outcome = "cookie"
               THEN Fetch([req EXCEPT !.cookie = <<r>>, !.url = 0], "getcrumb", "crumb")
               ELSE IF req.url < Len(urls)
               THEN Fetch([req EXCEPT !.url = @ + 1], urls[req.url + 1], "cookie")
               ELSE Return(req, <<>>, <<>>),
               cachedCrumb, cachedCookie)

\* the step with cachedCookie = cookie before the crumb is read
CrumbFetchSettles_StoresCookie(r, outcome) ==
    /\ requests[r].pc = "crumb"
    /\ LET req == requests[r]
       IN  ProxyStep(r,
               IF outcome = "rejects" THEN Return(req, <<>>, <<>>)
               ELSE [req EXCEPT !.pc = "crumbText"],
               cachedCrumb,
               IF outcome = "rejects" THEN cachedCookie ELSE req.cookie)

\* fetch(.../v1/test/getcrumb) settles: the outer catch, or the await of
\* crumbResponse.text()
CrumbFetchSettles(r, outcome) ==
    /\ requests[r].pc = "crumb"
    /\ LET req == requests[r]
       IN  ProxyStep(r,
               IF outcome = "rejects" THEN Return(req, <<>>, <<>>)
               ELSE [req EXCEPT !.pc = "crumbText"],
               cachedCrumb, cachedCookie)

\* crumbResponse.text() settles: the outer catch, the return without a
\* crumb, or cachedCrumb = crumb; cachedCookie = cookie and the return
CrumbTextSettles(r, outcome) ==
    /\ requests[r].pc = "crumbText"
    /\ LET req == requests[r]
       IN  IF outcome = "crumb"
           THEN ProxyStep(r, Return(req, <<r>>, req.cookie), <<r>>, req.cookie)
           ELSE ProxyStep(r, Return(req, <<>>, <<>>), cachedCrumb, cachedCookie)

\* the handler after await getCrumbAndCookie(): the url of the options, or
\* the tests of startDate and endDate and the url of the chart; fetch(yahooUrl)
HandlerResumes(r) ==
    /\ requests[r].pc = "authed"
    /\ LET req == requests[r]
           q == req.query
       IN  ProxyStep(r,
               IF q.type = <<"options">> THEN Fetch(req, "options", "yahoo")
               ELSE IF NotAString(q.startDate) \/ NotAString(q.endDate)
               THEN Respond(req, 400)
               ELSE IF Period(q.startDate[1]) = NaN \/ Period(q.endDate[1]) = NaN
               THEN Respond(req, 400)
               ELSE Fetch(req, "chart", "yahoo"),
               cachedCrumb, cachedCookie)

\* the handler without a cache, from its start to fetch(yahooUrl)
PlainHandlerCalled(r, query) ==
    /\ Arrives(r)
    /\ LET req == NewRequest("plain", query)
       IN  ProxyStep(r,
               IF query.method = "OPTIONS" THEN Respond(req, 200)
               ELSE IF \/ NotAString(query.ticker)
                       \/ NotAString(query.startDate) \/ NotAString(query.endDate)
               THEN Respond(req, 400)
               ELSE IF \/ Period(query.startDate[1]) = NaN
                       \/ Period(query.endDate[1]) = NaN
               THEN Respond(req, 400)
               ELSE Fetch(req, "chart", "yahoo"),
               cachedCrumb, cachedCookie)

\* the statuses the provider answers with
YahooStatuses == {200, 401, 404}

\* fetch(yahooUrl) settles: the catch (500), the await of json(), or the
\* await of text() of an answer that is not ok
YahooFetchSettles(r, outcome) ==
    /\ requests[r].pc = "yahoo"
    /\ LET req == requests[r]
       IN  ProxyStep(r,
               IF outcome = 0 THEN Respond(req, 500)
               ELSE IF outcome = 200 THEN [req EXCEPT !.pc = "json"]
               ELSE [req EXCEPT !.pc = "errorText", !.status = outcome],
               cachedCrumb, cachedCookie)

\* the cache after an answer that is not ok: a 401 clears it
ClearedOn401(status, cached) == IF status = 401 THEN <<>> ELSE cached

\* yahooResponse.text() settles: the catch, or the cache cleared on a 401
\* (authenticating version) and the status passed on
ErrorTextSettles(r, outcome) ==
    /\ requests[r].pc = "errorText"
    /\ LET req == requests[r]
       IN  IF outcome = "rejects"
           THEN ProxyStep(r, Respond(req, 500), cachedCrumb, cachedCookie)
           ELSE IF req.version = "authenticating"
           THEN ProxyStep(r, Respond(req, req.status),
                          ClearedOn401(req.status, cachedCrumb),
                          ClearedOn401(req.status, cachedCookie))
           ELSE ProxyStep(r, Respond(req, req.status), cachedCrumb, cachedCookie)

\* yahooResponse.json() settles: the catch, or the data sent with 200
JsonSettles(r, outcome) ==
    /\ requests[r].pc = "json"
    /\ ProxyStep(r, Respond(requests[r], IF outcome = "rejects" THEN 500 ELSE 200),
                 cachedCrumb, cachedCookie)

ProxyNext ==
    \E r \in Requests :
        \/ \E query \in Queries : HandlerCalled(r, query)
        \/ \E query \in Queries : PlainHandlerCalled(r, query)
        \/ \E outcome \in {"rejects", "none", "cookie"} : CookieFetchSettles(r, outcome)
        \/ \E outcome \in {"rejects", "resolves"} : CrumbFetchSettles(r, outcome)
        \/ \E outcome \in {"rejects", "empty", "crumb"} : CrumbTextSettles(r, outcome)
        \/ HandlerResumes(r)
        \/ \E outcome \in {0} \cup YahooStatuses : YahooFetchSettles(r, outcome)
        \/ \E outcome \in {"rejects", "text"} : ErrorTextSettles(r, outcome)
        \/ \E outcome \in {"rejects", "data"} : JsonSettles(r, outcome)

ProxySpec == Init /\ [][ProxyNext]_vars

(***************************************************************************)
(* Properties of the dashboard (Spec).                                     *)
(***************************************************************************)
\* C1: after any sequence of quantity updates, removals and config
\* re-applies, no position of the portfolio has quantity 0.
C1_NoZeroQuantity ==
    \A i \in 1..Len(portfolio) : portfolio[i].quantity # 0

\* a -1 on a held option has just brought it to 0 and the position is gone
C1_Witness ==
    /\ Called("handleUpdateQuantity")
    /\ call[1].change = -1
    /\ call[1].option \notin Range(PositionIds(portfolio))
    /\ Len(portfolio) > 0

\* C2: in every reachable state no two positions of the portfolio have the
\* same option.id.
C2_OnePositionPerOptionId ==
    \A i, j \in 1..Len(portfolio) :
        portfolio[i].option.id = portfolio[j].option.id => i = j

\* a +1 on a held option has just updated it, next to another position
C2_Witness ==
    /\ Called("handleUpdateQuantity")
    /\ call[1].change = 1
    /\ Len(portfolio) = 2
    /\ \E i \in 1..Len(portfolio) :
           portfolio[i].option.id = call[1].option /\ portfolio[i].quantity = 2

C4_NoMutationWhileLoading ==
    pc # "idle" =>
        /\ loading
        /\ ~Rendered
        /\ portfolio = existingPortfolio
        /\ config = currentConfig

\* a recomputation with a snapshot of two positions is about to write back
C4_Witness ==
    /\ pc = "chain" /\ Called("handleApplyConfig")
    /\ Len(existingPortfolio) = 2
    /\ stockData # <<>>

UsableIndices(answer) ==
    IF answer.rejected \/ ~answer.ok \/ answer.result = <<>> THEN {}
    ELSE IF answer.result[1].timestamp = <<>> \/ answer.result[1].close = <<>> THEN {}
    ELSE LET timestamp == answer.result[1].timestamp[1]
             close == answer.result[1].close[1]
         IN  {i \in 1..Len(timestamp) :
                 i <= Len(close) /\ close[i] # <<>> /\ close[i][1] > 0}

\* C6: getStockData never rejects; when the provider request errors, is
\* not OK, is malformed or has no usable point, it returns the simulated
\* series of the same (ticker, startDate, endDate); in every outcome the
\* series has at least one point and lastPrice is the price of the last.
C6_GetStockDataNeverFails ==
    Called("getStockData") =>
        /\ returned # <<>>
        /\ Len(returned[1].historicalData) >= 1
        /\ returned[1].lastPrice =
               returned[1].historicalData[Len(returned[1].historicalData)].price
        /\ UsableIndices(call[1].answer) = {} =>
               returned[1] = simulateStockDataUsingGBM(call[1].ticker,
                                                       call[1].startDate,
                                                       call[1].endDate)

\* the provider answered OK with closes none of which is usable, and the
\* simulated series came back
C6_Witness ==
    /\ Called("getStockData")
    /\ ~call[1].answer.rejected /\ call[1].answer.ok
    /\ call[1].answer.result # <<>>
    /\ UsableIndices(call[1].answer) = {}
    /\ returned # <<>>
    /\ returned[1].ticker = SimulatedTicker(call[1].ticker)
    /\ Len(returned[1].historicalData) > 1

\* C7 (as stated): a started recomputation always eventually leaves the
\* loading state, also when the provider never answers.
C7_LoadingEventuallyEnds == loading ~> ~loading

\* C8: the series getStockData returns from provider data is exactly the
\* provider's points whose close is non-null and > 0, in their order.
C8_ExactlyTheUsablePoints ==
    (Called("getStockData") /\ returned # <<>>
        /\ returned[1].ticker = call[1].ticker) =>
        LET timestamp == call[1].answer.result[1].timestamp[1]
            close == call[1].answer.result[1].close[1]
            kept == KeysAsc(UsableIndices(call[1].answer))
        IN  returned[1].historicalData =
                [k \in 1..Len(kept) |->
                    [date |-> timestamp[kept[k]] \div DaySeconds,
                     price |-> close[kept[k]][1]]]

\* provider data with a zero, a null and a negative close between two
\* usable ones: the two usable points came back
C8_Witness ==
    /\ Called("getStockData") /\ returned # <<>>
    /\ returned[1].ticker = call[1].ticker
    /\ Len(call[1].answer.result[1].close[1]) = 5
    /\ Prices(returned[1].historicalData) = <<10, 12>>

\* C9: each strike of existingStrikes is in the generated chain under each
\* of the maturities 30, 60 and 90.
C9_ExistingStrikesInChain ==
    Called("generateOptionChain") =>
        \A strike \in Range(call[1].existingStrikes), maturity \in {30, 60, 90} :
            /\ maturity \in DOMAIN returned[1]
            /\ \E k \in 1..Len(returned[1][maturity]) :
                   returned[1][maturity][k].strike = strike

\* a chain generated with existing strikes far outside the ladder
C9_Witness ==
    /\ Called("generateOptionChain")
    /\ call[1].existingStrikes = <<1000, 3>>
    /\ call[1].currentPrice = 100
    /\ returned[1][90][1].strike = 3

\* C10: the chain has exactly the maturities 30, 60, 90; under each there
\* is exactly one Call and one Put for every strike of the merged strike
\* set and nothing else; all maturities have the same strike ladder; the
\* option ids are pairwise distinct and are `strike-maturity-type`.
C10_ChainShape ==
    Called("generateOptionChain") =>
        LET chain == returned[1]
            merged == Range(generatedStrikes(call[1].currentPrice))
                          \cup Range(call[1].existingStrikes)
            allOptions == AllOptions(chain)
        IN  /\ DOMAIN chain = {30, 60, 90}
            /\ \A maturity \in DOMAIN chain :
                   /\ Len(chain[maturity]) = 2 * Cardinality(merged)
                   /\ \A strike \in merged, type \in Range(OptionTypes) :
                          Cardinality({k \in 1..Len(chain[maturity]) :
                                          /\ chain[maturity][k].strike = strike
                                          /\ chain[maturity][k].type = type
                                          /\ chain[maturity][k].maturity = maturity}) = 1
                   /\ [k \in 1..Len(chain[maturity]) |-> chain[maturity][k].strike]
                          = [k \in 1..Len(chain[30]) |-> chain[30][k].strike]
            /\ \A j, k \in 1..Len(allOptions) :
                   allOptions[j].id = allOptions[k].id => j = k
            /\ \A k \in 1..Len(allOptions) :
                   allOptions[k].id = OptionId(allOptions[k].strike,
                                               allOptions[k].maturity,
                                               allOptions[k].type)

\* a chain at price 10, where four of the five base strikes round to 10,
\* with the existing strike 7 given twice
C10_Witness ==
    /\ Called("generateOptionChain")
    /\ call[1].currentPrice = 10
    /\ call[1].existingStrikes = <<7, 7>>
    /\ Len(returned[1][60]) = 6

\* C13: calculateSummaryStatistics never raises: with fewer than 2
\* log-returns it returns annualizedVolatility = skewness = kurtosis = 0 and
\* an empty log-returns sequence; otherwise the log-returns have one entry
\* per consecutive price pair (number of prices - 1), in series order.
C13_SummaryStatisticsShape ==
    Called("calculateSummaryStatistics") =>
        LET prices == call[1].prices
        IN  IF Len(prices) - 1 < 2
            THEN returned = [dailyLogReturns |-> <<>>, annualizedVolatility |-> 0,
                             skewness |-> 0, kurtosis |-> 0]
            ELSE /\ Len(returned.dailyLogReturns) = Len(prices) - 1
                 /\ \A i \in 1..(Len(prices) - 1) :
                        returned.dailyLogReturns[i] = Log(prices[i + 1], prices[i])

\* four prices have given three returns, the last one unlike the first
C13_Witness ==
    /\ Called("calculateSummaryStatistics")
    /\ Len(call[1].prices) = 4
    /\ Len(returned.dailyLogReturns) = 3
    /\ returned.dailyLogReturns[3] # returned.dailyLogReturns[1]

\* C14: on a constant price series of 3 or more prices (stdDev = 0)
\* calculateSummaryStatistics returns annualizedVolatility = 0, skewness = 0
\* and a defined kurtosis, never a NaN or infinite value.
C14_ConstantSeriesGuarded ==
    /\ Called("calculateSummaryStatistics")
    /\ Len(call[1].prices) >= 3
    /\ \A i \in 1..Len(call[1].prices) : call[1].prices[i] = call[1].prices[1]
    => /\ returned.annualizedVolatility = 0
       /\ returned.skewness = 0
       /\ returned.kurtosis # NaN

(***************************************************************************)
(* Properties of FinancialService.bsm (BsmSpec).                           *)
(***************************************************************************)
\* C11: bsm with T <= 0 or sigma <= 0 returns the intrinsic value as price,
\* max(0, S - K) for a Call and max(0, K - S) for a Put; delta 1 for a Call
\* with S > K, -1 for a Put with S < K, 0 otherwise; gamma, vega, theta and
\* rho 0; d1 and d2 +Infinity.
C11_ExpiredOrFlat ==
    Called("bsm") /\ (DCmp(call[1].T, DZero) <= 0 \/ DCmp(call[1].sigma, DZero) <= 0) =>
        LET S == call[1].S
            K == call[1].K
            above == DCmp(S, K) > 0
            below == DCmp(S, K) < 0
        IN  /\ returned["Call"].price = (IF above THEN DSub(S, K) ELSE DZero)
            /\ returned["Put"].price = (IF below THEN DSub(K, S) ELSE DZero)
            /\ returned["Call"].greeks.delta = (IF above THEN DInt(1) ELSE DZero)
            /\ returned["Put"].greeks.delta = (IF below THEN DInt(-1) ELSE DZero)
            /\ \A optionType \in Range(OptionTypes) :
                   /\ returned[optionType].greeks.gamma = DZero
                   /\ returned[optionType].greeks.vega = DZero
                   /\ returned[optionType].greeks.theta = DZero
                   /\ returned[optionType].greeks.rho = DZero
                   /\ returned[optionType].d1 = Infinity
                   /\ returned[optionType].d2 = Infinity

\* an expired option at the money: both deltas are 0 and both prices are 0
C11_Witness ==
    /\ Called("bsm")
    /\ call[1].T = DZero /\ DCmp(call[1].sigma, DZero) > 0
    /\ call[1].S = call[1].K
    /\ returned["Call"].greeks.delta = DZero /\ returned["Put"].greeks.delta = DZero
    /\ returned["Call"].d1 = Infinity

\* C12: put-call parity: Call price - Put price = S - K e^(-rT) within 1e-6
\* for all S, K, T > 0, sigma > 0 and r.
C12_PutCallParity ==
    Called("bsm") /\ DCmp(call[1].T, DZero) > 0 /\ DCmp(call[1].sigma, DZero) > 0 =>
        DCmp(DAbs(DSub(DSub(returned["Call"].price, returned["Put"].price),
                       DSub(call[1].S,
                            DMul(call[1].K, Exp(DMul(DNeg(call[1].r), call[1].T)))))),
             DNano(1000)) <= 0

(***************************************************************************)
(* Properties of the portfolio functions (PortfolioSpec).                  *)
(***************************************************************************)
\* quantity * value of the term <<quantity, value>>
WeightedTerm(term) == CASE Known(term) -> DMul(DInt(term[1]), term[2])

RECURSIVE WeightedSum(_, _)
\* the sum of the terms quantity * value of a sequence of <<quantity, value>>
WeightedSum(terms, n) ==
    IF n = 0 THEN DZero
    ELSE DAdd(WeightedSum(terms, n - 1), WeightedTerm(terms[n]))

\* C15: calculatePortfolioGreeks returns, for each of delta, gamma, vega,
\* theta and rho, the sum over the positions of quantity x the option's
\* IV-based greek; calculatePortfolioValue returns the sum of quantity x
\* option.bsmPrice x lotSize; on an empty portfolio the five greeks and the
\* value are exactly 0.
C15_PortfolioSums ==
    /\ Called("calculatePortfolioGreeks") =>
           LET held == call[1].portfolio
           IN  /\ DOMAIN returned = GreekNames
               /\ \A g \in GreekNames :
                      returned[g] =
                          WeightedSum([i \in 1..Len(held) |->
                                          <<held[i].quantity, held[i].option.greeks[g]>>],
                                      Len(held))
               /\ held = <<>> => \A g \in GreekNames : returned[g] = DZero
    /\ Called("calculatePortfolioValue") =>
           LET held == call[1].portfolio
           IN  /\ returned =
                      WeightedSum([i \in 1..Len(held) |->
                                      <<held[i].quantity * call[1].lotSize,
                                        held[i].option.bsmPrice>>],
                                  Len(held))
               /\ held = <<>> => returned = DZero

\* two positions, one long and one short, in options whose IV is not the
\* historical volatility: the portfolio delta is that of neither position
C15_Witness ==
    /\ Called("calculatePortfolioGreeks")
    /\ Len(call[1].portfolio) = 2
    /\ call[1].portfolio[1].quantity > 0 /\ call[1].portfolio[2].quantity < 0
    /\ \A i \in 1..2 :
           /\ call[1].portfolio[i].option.greeks # call[1].portfolio[i].option.greeksHistVol
           /\ returned.delta # call[1].portfolio[i].option.greeks.delta
    /\ returned.gamma # DZero

C20_HedgeInstrument ==
    Called("calculateGammaHedge") /\ returned # <<>> =>
        LET held == call[1].portfolio
            gamma == WeightedSum([i \in 1..Len(held) |->
                                     <<held[i].quantity, held[i].option.greeks.gamma>>],
                                 Len(held))
            allOptions == AllOptions(call[1].optionChain)
            chosen == returned[1].option
            quotient == DDiv(DNeg(gamma), chosen.greeks.gamma)
        IN  /\ chosen.maturity = 30
            /\ \E k \in 1..Len(allOptions) :
                   /\ allOptions[k] = chosen
                   /\ \A j \in 1..Len(allOptions) :
                          allOptions[j].maturity = 30 =>
                              /\ NatCmp(allOptions[j].greeks.gamma.mag,
                                        chosen.greeks.gamma.mag) <= 0
                              /\ j > k => allOptions[j].greeks.gamma.mag
                                              # chosen.greeks.gamma.mag
            /\ chosen.greeks.gamma # DZero =>
                   /\ returned[1].quantity = DAbs(DRound(quotient))
                   /\ returned[1].action =
                          (IF DCmp(quotient, DZero) > 0 THEN "Buy" ELSE "Sell")

\* positions of 60 and 90 days only, long gamma: the suggestion sells the
\* 30-day Put at the money, listed after the Call of the same gamma
C20_Witness ==
    /\ Called("calculateGammaHedge") /\ returned # <<>>
    /\ \A i \in 1..Len(call[1].portfolio) : call[1].portfolio[i].option.maturity > 30
    /\ returned[1].option.id = "10-30-Put"
    /\ returned[1].action = "Sell"
    /\ DCmp(returned[1].quantity, DInt(1)) >= 0

(***************************************************************************)
(* Properties of calculatePortfolioVaR (VaRSpec).                          *)
(***************************************************************************)
\* the returns of a series of values, without those whose previous value is 0
FiniteReturns(pvSeries) ==
    CASE Known(pvSeries) ->
        LET finite == SelectSeq([i \in 1..(Len(pvSeries) - 1) |-> i],
                                LAMBDA i : pvSeries[i] # DZero)
        IN  [k \in 1..Len(finite) |->
                DDiv(DSub(pvSeries[finite[k] + 1], pvSeries[finite[k]]),
                     pvSeries[finite[k]])]

\* their mean, their deviation (n - 1 in the divisor) and the one that has
\* rank others below it or equal to it before it
MeanOf(rs) ==
    CASE Known(rs) ->
        DDivInt(WeightedSum([k \in 1..Len(rs) |-> <<1, rs[k]>>], Len(rs)), Len(rs))

DeviationOf(rs, mean) ==
    CASE Known(rs) /\ Known(mean) ->
        DSqrt(DDivInt(WeightedSum([k \in 1..Len(rs) |->
                                      <<1, DMul(DSub(rs[k], mean), DSub(rs[k], mean))>>],
                                  Len(rs)),
                      Len(rs) - 1))

RankedOf(rs, rank) ==
    CASE Known(rs) ->
        rs[CHOOSE k \in 1..Len(rs) :
               /\ Cardinality({j \in 1..Len(rs) : DCmp(rs[j], rs[k]) < 0}) <= rank
               /\ Cardinality({j \in 1..Len(rs) : DCmp(rs[j], rs[k]) <= 0}) > rank]

\* the result for two returns or more: the parametric fields from the mean
\* and the deviation, the historical ones from the returns of rank
\* floor(0.05 n) and floor(0.01 n)
ComputedFrom(rs, last, mean, deviation) ==
    CASE Known(last) /\ Known(mean) /\ Known(deviation) ->
        [parametric95 |-> DMul(DNeg(DAdd(mean, DMul(normCdf(DMilli(50)), deviation))), last),
         parametric99 |-> DMul(DNeg(DAdd(mean, DMul(normCdf(DMilli(10)), deviation))), last),
         historical95 |-> DMul(DNeg(RankedOf(rs, (5 * Len(rs)) \div 100)), last),
         historical99 |-> DMul(DNeg(RankedOf(rs, Len(rs) \div 100)), last)]

ZeroOrComputed(pvSeries, rs) ==
    CASE Known(pvSeries) /\ Known(rs) ->
        IF Len(rs) < 2 THEN ZeroVaR
        ELSE ComputedFrom(rs, pvSeries[Len(pvSeries)], MeanOf(rs),
                          DeviationOf(rs, MeanOf(rs)))

ZeroOrComputedOf(pvSeries) ==
    CASE Known(pvSeries) -> ZeroOrComputed(pvSeries, FiniteReturns(pvSeries))

\* C16: calculatePortfolioVaR returns the all-zero result when the portfolio
\* is empty, when fewer than 2 prices are given, or when fewer than 2 of the
\* portfolio returns are finite (the previous value of the others is 0); in
\* every other case the four fields are the values computed from the
\* returns: the parametric ones from their mean and deviation, the
\* historical ones from the returns of rank floor(0.05 n) and floor(0.01 n).
C16_ZeroOrComputed ==
    Called("calculatePortfolioVaR") =>
        IF call[1].portfolio = <<>> \/ Len(call[1].stockPrices) < 2
        THEN returned = ZeroVaR
        ELSE returned =
                 ZeroOrComputedOf(PvSeriesFrom(call[1].portfolio, call[1].stockPrices,
                                               call[1].config, 1, <<>>))

\* a Call without volatility held over three days, at the money on the first:
\* the portfolio is worth 0, then more each day, one return of the two is
\* infinite, and the result is all zero
C16_Witness ==
    /\ Called("calculatePortfolioVaR")
    /\ Len(call[1].portfolio) = 1
    /\ call[1].portfolio[1].option.iv = 0
    /\ call[1].portfolio[1].option.type = "Call"
    /\ Len(call[1].stockPrices) = 3
    /\ call[1].stockPrices[1] = call[1].portfolio[1].option.strike
    /\ call[1].stockPrices[2] > call[1].stockPrices[1]
    /\ call[1].stockPrices[3] > call[1].stockPrices[2]
    /\ returned = ZeroVaR

\* C17: the four fields of the result of calculatePortfolioVaR are >= 0, for
\* every portfolio, price series and config.
C17_VaRNonNegative ==
    Called("calculatePortfolioVaR") =>
        \A field \in {"parametric95", "parametric99", "historical95", "historical99"} :
            DCmp(returned[field], DZero) >= 0

\* the historical fields of result are those of the returns of the series of
\* values at the indices floor(0.05 n) and floor(0.01 n), which are indices
\* of the returns, times the last value of the series
HistoricalOf(result, rs, last) ==
    CASE Known(rs) /\ Known(last) ->
        Len(rs) >= 2 =>
            /\ (5 * Len(rs)) \div 100 \in 0..(Len(rs) - 1)
            /\ Len(rs) \div 100 \in 0..(Len(rs) - 1)
            /\ result.historical95 = DMul(DNeg(RankedOf(rs, (5 * Len(rs)) \div 100)), last)
            /\ result.historical99 = DMul(DNeg(RankedOf(rs, Len(rs) \div 100)), last)

HistoricalOfSeries(result, pvSeries) ==
    CASE Known(pvSeries) ->
        HistoricalOf(result, FiniteReturns(pvSeries), pvSeries[Len(pvSeries)])

\* C22: with n >= 2 finite returns, historical95 is minus the return at
\* index floor(0.05 n) of the ascending returns times the current value, and
\* historical99 the same at floor(0.01 n); the current value is the last of
\* the repriced values, and both indices are within the returns.
C22_HistoricalQuantiles ==
    (/\ Called("calculatePortfolioVaR")
     /\ call[1].portfolio # <<>>
     /\ Len(call[1].stockPrices) >= 2) =>
        HistoricalOfSeries(returned,
                           PvSeriesFrom(call[1].portfolio, call[1].stockPrices,
                                        call[1].config, 1, <<>>))

\* twenty returns of a priced option held: the index at 5% is 1, the one at
\* 1% is 0, the two fields differ, and the last price is not the one the
\* option was priced at
C22_Witness ==
    /\ Called("calculatePortfolioVaR")
    /\ Len(call[1].stockPrices) = 21
    /\ Len(call[1].portfolio) = 1
    /\ call[1].portfolio[1].option.iv > 0
    /\ call[1].portfolio[1].quantity > 0
    /\ call[1].stockPrices[21] # call[1].portfolio[1].option.strike
    /\ returned.historical95 # returned.historical99
    /\ returned.historical95 # DZero

\* the value series is worth more than 0 at its end and has two finite
\* returns or more: historical99 >= historical95, and they are equal for
\* fewer than 20 returns
QuantilesOrdered(result, pvSeries) ==
    CASE Known(pvSeries) ->
        LET finite == {i \in 1..(Len(pvSeries) - 1) : pvSeries[i] # DZero}
        IN  (Cardinality(finite) >= 2 /\ DCmp(pvSeries[Len(pvSeries)], DZero) > 0) =>
                /\ DCmp(result.historical99, result.historical95) >= 0
                /\ Cardinality(finite) < 20 => result.historical99 = result.historical95

\* C28: when calculatePortfolioVaR computes its result and the last
\* repriced portfolio value is positive, historical99 >= historical95; for
\* fewer than 20 finite returns the two are equal.
C28_HistoricalOrdered ==
    (/\ Called("calculatePortfolioVaR")
     /\ call[1].portfolio # <<>>
     /\ Len(call[1].stockPrices) >= 2) =>
        QuantilesOrdered(returned,
                         PvSeriesFrom(call[1].portfolio, call[1].stockPrices,
                                      call[1].config, 1, <<>>))

\* a position held over twenty returns, worth more than 0: historical99 is
\* above historical95, which is a loss
C28_Witness ==
    /\ Called("calculatePortfolioVaR")
    /\ Len(call[1].stockPrices) = 21
    /\ \A i \in 1..Len(call[1].portfolio) : call[1].portfolio[i].quantity > 0
    /\ DCmp(returned.historical99, returned.historical95) > 0
    /\ DCmp(returned.historical95, DZero) > 0

(***************************************************************************)
(* The gamma hedge suggestion of the Dashboard (Spec).                     *)
(***************************************************************************)
\* C19: the stored gamma hedge suggestion is the value of
\* calculateGammaHedge(portfolio, optionChain) for the portfolio and the
\* chain of the state, and null when the portfolio is empty (or there is no
\* chain); a step that changes the portfolio or the chain leaves no
\* suggestion of the earlier ones.
C19_HedgeFollows ==
    /\ portfolio = <<>> => gammaHedge = <<>>
    /\ optionChain = <<>> => gammaHedge = <<>>
    /\ (portfolio # <<>> /\ optionChain # <<>>) =>
           /\ Len(gammaHedge) = 1
           /\ gammaHedge[1].fn = "calculateGammaHedge"
           /\ gammaHedge[1].portfolio = portfolio
           /\ gammaHedge[1].optionChain = optionChain[1]

\* a fetch has replaced the chain under a portfolio that was re-priced: the
\* suggestion is the one of the new chain and the re-priced positions
C19_Witness ==
    /\ pc = "idle"
    /\ portfolio # <<>>
    /\ gammaHedge # <<>>
    /\ gammaHedge[1].optionChain = optionChain[1]
    /\ gammaHedge[1].portfolio = portfolio
    /\ config # InitialConfig
    /\ \E i \in 1..Len(portfolio) :
           portfolio[i].option \in Range(AllOptions(optionChain[1]))

(***************************************************************************)
(* Properties of calculatePnLScenarios (ScenarioSpec).                     *)
(***************************************************************************)
\* the price of the option of a position at the spot S, with its own IV and
\* maturity and the rate of the config
RepricedAt(pos, S, cfg) ==
    bsmResult(S, DInt(pos.option.strike), DDivInt(DInt(pos.option.maturity), 252),
              DMilli(pos.option.iv), DDivInt(DInt(cfg.riskFreeRate), 100),
              pos.option.type).price

\* the two P&L of the scenario result at the shocked spot newPrice
ScenarioPnL(result, held, lastPrice, newPrice, cfg) ==
    CASE Known(newPrice) ->
        /\ result.pnlUnhedged =
               DMul(DSub(WeightedSum([i \in 1..Len(held) |->
                                         <<held[i].quantity,
                                           RepricedAt(held[i], newPrice, cfg)>>],
                                     Len(held)),
                         WeightedSum([i \in 1..Len(held) |->
                                         <<held[i].quantity, held[i].option.bsmPrice>>],
                                     Len(held))),
                    DInt(cfg.lotSize))
        /\ result.pnlDeltaHedged =
               DAdd(result.pnlUnhedged,
                    DMul(DNeg(WeightedSum([i \in 1..Len(held) |->
                                              <<held[i].quantity,
                                                held[i].option.greeks.delta>>],
                                          Len(held))),
                         DSub(newPrice, DInt(lastPrice))))

\* C21: calculatePnLScenarios returns five scenarios, of -2%, -1%, 0%, +1%
\* and +2% of lastPrice in this order; pnlUnhedged is (the sum of quantity x
\* the price at the shocked spot - the sum of quantity x the stored price) x
\* lotSize, and pnlDeltaHedged is pnlUnhedged + the delta hedge shares of
\* lotSize 1 x (newPrice - lastPrice).
C21_FiveScenarios ==
    Called("calculatePnLScenarios") =>
        /\ Len(returned) = 5
        /\ [k \in 1..5 |-> returned[k].scenario] = <<"-2%", "-1%", "0%", "1%", "2%">>
        /\ \A k \in 1..5 :
               ScenarioPnL(returned[k], call[1].portfolio, call[1].lastPrice,
                           DDivInt(DMulInt(DInt(call[1].lastPrice), 97 + k), 100),
                           call[1].config)

\* a priced option held at a lot size of 50, the spot away from the price it
\* was priced at: the hedged P&L is not the unhedged one, and no scenario is
\* flat
C21_Witness ==
    /\ Called("calculatePnLScenarios")
    /\ call[1].config.lotSize = 50
    /\ Len(call[1].portfolio) = 1
    /\ call[1].portfolio[1].option.iv > 0
    /\ call[1].lastPrice = 11
    /\ \A k \in 1..5 :
           /\ returned[k].pnlUnhedged # DZero
           /\ k # 3 => returned[k].pnlDeltaHedged # returned[k].pnlUnhedged

(***************************************************************************)
(* The arguments of the FinancialService functions after a call            *)
(* (FrameSpec).                                                            *)
(***************************************************************************)
\* C23: calculatePortfolioGreeks, calculatePortfolioValue,
\* calculatePortfolioVaR, hedgePortfolio, calculateGammaHedge,
\* calculatePnLScenarios and generateOptionChain leave their arguments as
\* they were: after the call the portfolio, the rows of the option chain,
\* the price series, the existing strikes and the config are those passed.
C23_ArgumentsUnchanged ==
    call # <<>> =>
        \A name \in DOMAIN returned \ {"value"} : returned[name] = call[1][name]

\* a gamma hedge was found by sorting the options of maturity 30, which are
\* not in the order of their gammas in the chain, and the chain is as before
C23_Witness ==
    /\ Called("calculateGammaHedge")
    /\ returned.value # <<>>
    /\ SortByGamma(call[1].optionChain[30]) # call[1].optionChain[30]
    /\ returned.optionChain = call[1].optionChain
    /\ returned.portfolio = call[1].portfolio

(***************************************************************************)
(* Properties of the delta-hedged portfolio (HedgedSpec).                  *)
(***************************************************************************)
\* the sum of quantity x delta of a hedged portfolio is 0, and its stock
\* position is priced at the spot of every day of the series
DeltaNeutral(hedged, prices, cfg) ==
    CASE Known(hedged) ->
        /\ DAdd(WeightedSum([i \in 1..(Len(hedged) - 1) |->
                                <<hedged[i].quantity, hedged[i].option.greeks.delta>>],
                            Len(hedged) - 1),
                DMul(hedged[Len(hedged)].quantity,
                     hedged[Len(hedged)].option.greeks.delta)) = DZero
        /\ \A t \in 1..Len(prices) :
               PriceAt(hedged[Len(hedged)], prices[t], [cfg EXCEPT !.lotSize = 1])
                   = DInt(prices[t])

\* C24: the delta-hedged portfolio that PortfolioAnalysis and
\* exportDataToCSV pass to calculatePortfolioVaR is delta-neutral for every
\* lotSize of the config: the sum of quantity x delta over its positions is
\* 0, and its STOCK_HEDGE position is priced at the spot S_t on every day.
C24_HedgedPortfolioNeutral ==
    /\ (Called("PortfolioAnalysis") /\ call[1].portfolio # <<>>) =>
           DeltaNeutral(HedgedPortfolio(call[1].portfolio, call[1].stockData,
                                        call[1].config),
                        Prices(call[1].stockData.historicalData), call[1].config)
    /\ (Called("exportDataToCSV") /\ call[1].portfolio # <<>>) =>
           DeltaNeutral(ExportedHedgedPortfolio(call[1].portfolio, call[1].stockData,
                                                call[1].config),
                        Prices(call[1].stockData.historicalData), call[1].config)

(***************************************************************************)
(* Properties of the lots of a gamma hedge (PortfolioSpec, LotsSpec).      *)
(***************************************************************************)
\* the gamma of the portfolio of a call
HeldGamma(held) ==
    WeightedSum([i \in 1..Len(held) |->
                    <<held[i].quantity, held[i].option.greeks.gamma>>],
                Len(held))

ResidualGamma(held, suggestion) ==
    CASE Known(suggestion) ->
        DAdd(HeldGamma(held),
             DMul(IF suggestion.action = "Buy" THEN suggestion.quantity
                  ELSE DNeg(suggestion.quantity),
                  suggestion.option.greeks.gamma))

\* C26: after the trade of a suggestion that is not null (Buy = +quantity
\* lots of the option, Sell = -quantity lots) the absolute portfolio gamma
\* is at most half the absolute gamma of the option, for a portfolio gamma
\* of either sign and for a quotient that is an exact half.
C26_ResidualWithinHalfLot ==
    Called("calculateGammaHedge") /\ returned # <<>> =>
        NatCmp(NatMulSmall(ResidualGamma(call[1].portfolio, returned[1]).mag, 2),
               returned[1].option.greeks.gamma.mag) <= 0

\* a portfolio gamma of one and a half times the gamma of the option: one
\* lot is sold and half a lot of gamma is left
C26_Witness ==
    /\ Called("calculateGammaHedge") /\ returned # <<>>
    /\ ~HeldGamma(call[1].portfolio).neg
    /\ NatMulSmall(HeldGamma(call[1].portfolio).mag, 2)
           = NatMulSmall(returned[1].option.greeks.gamma.mag, 3)
    /\ returned[1].action = "Sell"
    /\ returned[1].quantity = DInt(1)
    /\ NatMulSmall(ResidualGamma(call[1].portfolio, returned[1]).mag, 2)
           = returned[1].option.greeks.gamma.mag

(***************************************************************************)
(* Properties of the marks of the dashboard portfolio (Spec).              *)
(***************************************************************************)
\* the terms of currentValue in calculatePnLScenarios: quantity and stored
\* price of each position
MarkedTerms(positions) ==
    [i \in 1..Len(positions) |-> <<positions[i].quantity, positions[i].option.bsm>>]

\* the terms of newValue in calculatePnLScenarios for a change of 0.0:
\* newPrice = lastPrice * (1 + 0.0), and each position priced by bsm at its
\* stored strike, maturity and iv with the rate of the config
RepricedTerms(positions, lastPrice, cfg) ==
    LET newPrice == (lastPrice * (100 + 0)) \div 100
    IN  [i \in 1..Len(positions) |->
            <<positions[i].quantity,
              bsm(newPrice, positions[i].option.strike, positions[i].option.maturity,
                  positions[i].option.iv, cfg.riskFreeRate, positions[i].option.type)>>]

CachePaired ==
    \/ cachedCrumb = <<>> /\ cachedCookie = <<>>
    \/ cachedCrumb # <<>> /\ cachedCookie = cachedCrumb

\* request r is answered with the 401 of the provider in this step
Passes401(r) ==
    /\ requests[r].pc = "errorText" /\ requests[r].status = 401
    /\ requests[r].version = "authenticating"
    /\ requests'[r].responses = <<401>>

\* request r arrives at the authenticating handler with a ticker in this
\* step and finds the cache empty
ArrivesAtEmptyCache(r) ==
    /\ requests[r].pc = "none" /\ requests'[r].pc # "none"
    /\ requests'[r].version = "authenticating"
    /\ requests'[r].query.method = "GET" /\ ~NotAString(requests'[r].query.ticker)
    /\ cachedCrumb = <<>> /\ cachedCookie = <<>>

\* C29: in the authenticating proxy, however the steps of concurrent
\* requests interleave, the cached crumb and the cached cookie are both null
\* or both set, and when set they come from the same call of
\* getCrumbAndCookie; the step that passes on a 401 of the provider leaves
\* both null, and a request that finds them null fetches them again.
C29_CachePaired ==
    /\ CachePaired
    /\ [][/\ CachePaired'
          /\ \A r \in Requests :
                 /\ Passes401(r) => cachedCrumb' = <<>> /\ cachedCookie' = <<>>
                 /\ ArrivesAtEmptyCache(r) =>
                        /\ requests'[r].pc = "cookie"
                        /\ requests'[r].outbound = <<urls[1]>>]_vars

\* the first request was answered 401, which cleared the cache, and the
\* cache holds the crumb and the cookie that the call of the second fetched
C29_Witness ==
    /\ requests[1].pc = "done" /\ requests[1].responses = <<401>>
    /\ requests[1].version = "authenticating"
    /\ requests[2].pc = "authed"
    /\ "getcrumb" \in Range(requests[2].outbound)
    /\ cachedCrumb = <<2>> /\ cachedCookie = <<2>>

\* a handler call sends nothing before its end and one response at it
OneResponse(req) ==
    IF req.pc = "done" THEN Len(req.responses) = 1 ELSE req.responses = <<>>

\* the response is a 400, or the 200 of a preflight
RejectedOrPreflight(req) ==
    \/ req.responses = <<400>>
    \/ req.query.method = "OPTIONS" /\ req.responses = <<200>>

\* C30: in both versions of the handler every request receives exactly one
\* response, and a request answered with 400 (no ticker, no startDate or
\* endDate for historical data, dates that do not parse) or as an OPTIONS
\* preflight has caused no request to the provider.
C30_OneResponseNoOutbound ==
    \A r \in Requests :
        requests[r].pc # "none" =>
            /\ OneResponse(requests[r])
            /\ RejectedOrPreflight(requests[r]) => requests[r].outbound = <<>>

====
